---- MODULE Spec2Model ----
(***************************************************************************)
(* A model of the AIMailBox mail server: the inbound webhook handlers of   *)
(* main.py, the signature gate and MIME front end of email_processor.py,   *)
(* the AI analysis orchestrator of ai_analyzer.py and the translation      *)
(* service of trans.py.                                                    *)
(*                                                                         *)
(* Text is a sequence of one-character strings.  A character outside ASCII *)
(* is written by its code point ("u4e2d" is U+4E2D).  An AI answer is a    *)
(* sequence of lexical tokens (fence markers, newlines, braces, JSON       *)
(* member lists, scalars, prose words).                                    *)
(***************************************************************************)
EXTENDS Integers, Sequences, FiniteSets, TLC

VARIABLES
    \* configuration (config.py)
    secret,        \* config.INBOUND_SECRET
    apiKey,        \* config.AI_API_KEY ("" when not configured)
    autoReply,     \* config.AUTO_REPLY_ENABLED
    \* one invocation of EmailAnalyzer.analyze_email_content
    aPc,           \* "idle", "call", "finish", "returned"
    aContent,      \* email_content
    aSender,       \* sender
    aLang,         \* detected_language (local variable)
    aPrompt,       \* the prompt built by _build_analysis_prompt, None before
    aRequests,     \* number of requests.post calls issued by this invocation
    aOutcome,      \* what the completion endpoint did with the request
    aResponse,     \* ai_response, the value returned by _call_ai_api
    aResult,       \* the returned analysis, NoAnalysis before the return
    \* one invocation of EmailTranslator.translate_email
    tPc,           \* "idle", "subject", "body", "build", "returned", "raised"
    tEmail,        \* processed_email
    tTarget,       \* target_language
    tLang,         \* original_language
    tRequests,     \* requests.post calls issued, per field
    tOutcome,      \* what the completion endpoint did, per field
    tSubject,      \* translated_subject
    tContent,      \* translated_content
    tResult,       \* the returned dict, NoTranslation before the return
    \* one request to the FastAPI application (main.py)
    endpoint,      \* "none", "inbound", "trans", "analyze"
    pc,            \* position of the handler
    reqRaw,        \* payload["raw_base64"]
    reqSig,        \* the x-inbound-signature header
    reqTarget,     \* target_language of /inbound/trans/{target_language}
    verified,      \* what verify_signature returned: "unset", "True", "False"
    parseAttempted, \* parse_raw_email has been called
    processed,     \* processed_email
    analysisResult,\* analysis_result
    analyzeCalls,  \* calls of analyzer.analyze_email_content by the handlers
    analyzeRaised, \* such a call raised
    sendResult,    \* send_result: "None", "SES", "SMTP", "failed"
    sent,          \* the messages handed to the mail transport
    emails,        \* the records of emails.json
    logs,          \* the activity types of email_logs.json
    status,        \* HTTP status of the response, 0 before
    \* one direct call of a function of the program
    fn,            \* the function called, "none" before
    fArgs,         \* its arguments
    fResult,       \* what it returned
    \* workers that call DataStorage on the same two files
    wPc,           \* per worker: "idle", or "loaded" between _load_* and _save_*
    wStep,         \* per worker: the call of its program it is at
    wData,         \* per worker: the list it loaded
    acked,         \* the calls of save_email / log_activity that returned True
    appended,      \* every log entry ever saved, in the order of the saves
    overlapped     \* a call has loaded a file between another's load and save

avars == <<aPc, aContent, aSender, aLang, aPrompt, aRequests, aOutcome, aResponse, aResult>>
tvars == <<tPc, tEmail, tTarget, tLang, tRequests, tOutcome, tSubject, tContent, tResult>>
cvars == <<secret, apiKey, autoReply>>
hvars == <<endpoint, pc, reqRaw, reqSig, reqTarget, verified, parseAttempted, processed,
           analysisResult, analyzeCalls, analyzeRaised, sendResult, sent, emails, logs, status>>
fvars == <<fn, fArgs, fResult>>
svars == <<wPc, wStep, wData, acked, appended, overlapped>>
vars == <<cvars, avars, tvars, hvars, fvars, svars>>

---------------------------------------------------------------------------
(* Bounds of the model *)

\* longest email content enumerated exhaustively
MaxContentLen == 2

\* config.MAX_EMAIL_CONTENT_LENGTH as configured for the model (default 100000)
MaxEmailContentLength == 4

\* longest text enumerated exhaustively for the language detectors
MaxTextLen == 2

---------------------------------------------------------------------------
(* Python values *)

\* Python's None where a string is expected: a text no string equals
None == <<"None">>

\* truth value of a str-or-None: `if not x`
Falsy(x) == x = None \/ x = <<>>

Min(S) == CHOOSE x \in S : \A y \in S : x <= y
Max(S) == CHOOSE x \in S : \A y \in S : x >= y

\* s[:n]
Take(s, n) == SubSeq(s, 1, IF Len(s) < n THEN Len(s) ELSE n)

\* all sequences over S of length 0..n
RECURSIVE SeqsUpTo(_, _)
SeqsUpTo(S, n) ==
    IF n = 0 THEN {<<>>}
    ELSE LET shorter == SeqsUpTo(S, n - 1)
         IN  shorter \cup {Append(s, c) : s \in {t \in shorter : Len(t) = n - 1}, c \in S}

\* the workers on the storage
Workers == {1, 2}

\* no worker has called the storage
StorageIdle ==
    /\ wPc = [w \in Workers |-> "idle"]
    /\ wStep = [w \in Workers |-> 1]
    /\ wData = [w \in Workers |-> <<>>]
    /\ acked = {}
    /\ appended = <<>>
    /\ overlapped = FALSE

\* no function has been called directly
NoCall ==
    /\ fn = "none"
    /\ fArgs = <<>>
    /\ fResult = <<>>

---------------------------------------------------------------------------
(* Characters *)

\* code point of the characters texts are built from
CodePoint(c) ==
    CASE c = "a" -> 97
      [] c = "A" -> 65
      [] c = " " -> 32
      [] c = "\n" -> 10
      [] c = "\t" -> 9
      [] c = "1" -> 49
      [] c = "u00e9" -> 233
      [] c = "u00c9" -> 201
      [] c = "u00df" -> 223
      [] c = "u00f1" -> 241
      [] c = "u1e9e" -> 7838
      [] c = "u3042" -> 12354
      [] c = "u4e00" -> 19968
      [] c = "u4e2d" -> 20013
      [] c = "u9fff" -> 40959
      [] c = "ua000" -> 40960
      [] c = "." -> 46
      [] c = "[" -> 91
      [] c = "]" -> 93
      [] c = "u5185" -> 20869
      [] c = "u5bb9" -> 23481
      [] c = "u5df2" -> 24050
      [] c = "u622a" -> 25130
      [] c = "u65ad" -> 26029
      [] c = "u65e0" -> 26080
      [] c = "u4e3b" -> 20027
      [] c = "u9898" -> 39064

\* str.lower() on one character
UpperLetters ==
    <<"A", "B", "C", "D", "E", "F", "G", "H", "I", "J", "K", "L", "M",
      "N", "O", "P", "Q", "R", "S", "T", "U", "V", "W", "X", "Y", "Z">>
LowerLetters ==
    <<"a", "b", "c", "d", "e", "f", "g", "h", "i", "j", "k", "l", "m",
      "n", "o", "p", "q", "r", "s", "t", "u", "v", "w", "x", "y", "z">>

LowerChar(c) ==
    IF \E i \in 1..26 : UpperLetters[i] = c
    THEN LowerLetters[CHOOSE i \in 1..26 : UpperLetters[i] = c]
    ELSE IF c = "u00c9" THEN "u00e9"
    ELSE IF c = "u1e9e" THEN "u00df"
    ELSE c

Lower(s) == [i \in 1..Len(s) |-> LowerChar(s[i])]

CjkFirst == 19968
CjkLast == 40959

\* the character class of U+4E00..U+9FFF
IsCjk(c) == CjkFirst <= CodePoint(c) /\ CodePoint(c) <= CjkLast

\* [a-zA-Z]
IsAsciiLetter(c) ==
    \/ (97 <= CodePoint(c) /\ CodePoint(c) <= 122)
    \/ (65 <= CodePoint(c) /\ CodePoint(c) <= 90)

\* variant of FrenchChars without the e with an acute accent
french_without_e_acute ==
    {"u00e0", "u00e1", "u00e2", "u00e3", "u00e4", "u00e5", "u00e6", "u00e7",
     "u00e8", "u00ea", "u00eb", "u00ec", "u00ed", "u00ee", "u00ef",
     "u00f0", "u00f1", "u00f2", "u00f3", "u00f4", "u00f5", "u00f6", "u00f8",
     "u00f9", "u00fa", "u00fb", "u00fc", "u00fd", "u00fe", "u00ff"}

\* the characters of the three patterns tried in turn
FrenchChars ==
    {"u00e0", "u00e1", "u00e2", "u00e3", "u00e4", "u00e5", "u00e6", "u00e7",
     "u00e8", "u00e9", "u00ea", "u00eb", "u00ec", "u00ed", "u00ee", "u00ef",
     "u00f0", "u00f1", "u00f2", "u00f3", "u00f4", "u00f5", "u00f6", "u00f8",
     "u00f9", "u00fa", "u00fb", "u00fc", "u00fd", "u00fe", "u00ff"}
GermanChars == {"u00e4", "u00f6", "u00fc", "u00df"}
SpanishChars == {"u00e1", "u00e9", "u00ed", "u00f3", "u00fa", "u00f1", "u00fc"}

Count(s, P(_)) == Cardinality({i \in 1..Len(s) : P(s[i])})
ContainsAny(s, S) == \E i \in 1..Len(s) : s[i] \in S

\* variant of detect_language in which a tie of the two counts is Chinese
detect_language_tie_zh(text) ==
    IF Falsy(text) THEN "zh"
    ELSE LET chinese_chars == Count(text, IsCjk)
             english_chars == Count(text, IsAsciiLetter)
         IN  IF chinese_chars >= english_chars THEN "zh"
             ELSE "en"

\* EmailAnalyzer.detect_language
detect_language(text) ==
    IF Falsy(text) THEN "zh"
    ELSE LET chinese_chars == Count(text, IsCjk)
             english_chars == Count(text, IsAsciiLetter)
         IN  IF chinese_chars > english_chars THEN "zh"
             ELSE IF english_chars > 0 THEN "en"
             ELSE IF ContainsAny(Lower(text), FrenchChars) THEN "fr"
             ELSE IF ContainsAny(Lower(text), GermanChars) THEN "de"
             ELSE IF ContainsAny(Lower(text), SpanishChars) THEN "es"
             ELSE "en"

---------------------------------------------------------------------------
(* Analysis results: Python dicts with the keys of the AI's JSON answer *)

AnalysisKeys ==
    {"intent", "urgency", "can_auto_reply", "chinese_content", "todo_items",
     "main_topic", "requires_info", "sentiment", "need_reply", "reply_content"}

\* A dict is a record of every field the program reads plus the set of keys
\* that are present; an absent key holds the filler of EmptyDict.  A bool is
\* written "True"/"False", so that a JSON string such as "'true'" can stand in
\* its place.
EmptyDict ==
    [keys |-> {}, intent |-> "", urgency |-> "", can_auto_reply |-> "",
     chinese_content |-> <<>>, todo_items |-> <<>>, main_topic |-> <<>>,
     requires_info |-> <<>>, sentiment |-> "", detected_language |-> "",
     need_reply |-> "", reply_content |-> <<>>, sender |-> ""]

\* the analysis_result of a handler before (or without) an analysis
NoAnalysis == [EmptyDict EXCEPT !.keys = {"<None>"}]

SummaryLen == 100

\* variant of _get_default_analysis that forgets the language argument
default_ignoring_language(content, language) ==
    [keys |-> AnalysisKeys \cup {"detected_language"},
     intent |-> "other", urgency |-> "medium", can_auto_reply |-> "False",
     chinese_content |-> Take(content, SummaryLen),
     todo_items |-> << <<"u4eba", "u5de5", "u5904", "u7406", "u90ae", "u4ef6">> >>,
     main_topic |-> <<"u672a", "u77e5", "u4e3b", "u9898">>,
     requires_info |-> <<"u9700", "u8981", "u4eba", "u5de5", "u5206", "u6790">>,
     sentiment |-> "neutral", detected_language |-> "zh",
     need_reply |-> "True", reply_content |-> <<>>, sender |-> ""]

\* EmailAnalyzer._get_default_analysis
\* (an absent or None content has no first 100 characters: content is a str here)
_get_default_analysis(content, language) ==
    [keys |-> AnalysisKeys \cup {"detected_language"},
     intent |-> "other", urgency |-> "medium", can_auto_reply |-> "False",
     chinese_content |->
        IF language = "zh" THEN Take(content, SummaryLen)
        ELSE <<"u9700", "u8981", "u4eba", "u5de5", "u7ffb", "u8bd1">>,
     todo_items |-> << <<"u4eba", "u5de5", "u5904", "u7406", "u90ae", "u4ef6">> >>,
     main_topic |-> <<"u672a", "u77e5", "u4e3b", "u9898">>,
     requires_info |-> <<"u9700", "u8981", "u4eba", "u5de5", "u5206", "u6790">>,
     sentiment |-> "neutral", detected_language |-> language,
     need_reply |-> "True", reply_content |-> <<>>, sender |-> ""]

---------------------------------------------------------------------------
(* The text of an AI answer and its decoding *)

Ws == {" ", "\n", "\t", "\r"}

\* the member lists an answer's JSON object may hold
Members == {"M_inquiry", "M_order", "M_spam", "M_spoof", "M_strbool"}

FullKeys == [EmptyDict EXCEPT
    !.keys = AnalysisKeys, !.intent = "inquiry", !.urgency = "high",
    !.can_auto_reply = "True", !.chinese_content = <<"u8be2", "u4ef7">>,
    !.todo_items = << <<"u56de", "u590d">> >>, !.main_topic = <<"u4ef7", "u683c">>,
    !.requires_info = <<>>, !.sentiment = "positive", !.need_reply = "True",
    !.reply_content = <<"H", "i">>]

\* the dict json.loads returns for "{" m "}"
MemberDict(m) ==
    CASE m = "M_inquiry" -> FullKeys
      [] m = "M_order" ->
            [FullKeys EXCEPT !.intent = "order", !.urgency = "low",
                             !.can_auto_reply = "False", !.need_reply = "False",
                             !.reply_content = <<>>, !.sentiment = "neutral",
                             !.requires_info = <<"i", "d">>]
      [] m = "M_spam" -> [EmptyDict EXCEPT !.keys = {"intent"}, !.intent = "spam"]
      [] m = "M_spoof" ->
            [FullKeys EXCEPT !.keys = AnalysisKeys \cup {"detected_language", "sender"},
                             !.detected_language = "xx",
                             !.sender = "mallory@evil.example"]
      [] m = "M_strbool" ->
            [FullKeys EXCEPT !.can_auto_reply = "'true'", !.need_reply = "'false'"]

\* str.strip()
Strip(s) ==
    LET idx == {i \in 1..Len(s) : s[i] \notin Ws}
    IN  IF idx = {} THEN <<>> ELSE SubSeq(s, Min(idx), Max(idx))

\* json.loads: ok is FALSE for a JSONDecodeError; whitespace between JSON
\* tokens is insignificant
json_loads(s) ==
    LET t == SelectSeq(s, LAMBDA c : c \notin Ws)
    IN  IF t = <<"{", "}">>
        THEN [ok |-> TRUE, isDict |-> TRUE, dict |-> EmptyDict]
        ELSE IF Len(t) = 3 /\ t[1] = "{" /\ t[2] \in Members /\ t[3] = "}"
        THEN [ok |-> TRUE, isDict |-> TRUE, dict |-> MemberDict(t[2])]
        ELSE IF t \in {<<"1">>, <<"[1]">>}
        THEN [ok |-> TRUE, isDict |-> FALSE, dict |-> EmptyDict]
        ELSE [ok |-> FALSE, isDict |-> FALSE, dict |-> EmptyDict]

\* the lexemes that begin with three backticks
FenceTokens == {"FENCE", "FENCE_JSON"}

\* one way the pattern ```json\s*\n(.*?)\n``` matches: the opening marker at i,
\* \s* over i+1..j-1, the first \n at j, the group j+1..k-1, the second \n at k
FenceMatch(r, i, j, k) ==
    /\ r[i] = "FENCE_JSON"
    /\ i < j /\ j < k /\ k < Len(r)
    /\ \A p \in (i + 1)..(j - 1) : r[p] \in Ws
    /\ r[j] = "\n"
    /\ r[k] = "\n"
    /\ r[k + 1] \in FenceTokens

\* re.search(r'```json\s*\n(.*?)\n```', response, re.DOTALL): leftmost start,
\* \s* greedy (the longest run first), the group lazy (the shortest first)
search_code_block(r) ==
    LET n == Len(r)
        starts == {i \in 1..n : \E j \in 1..n, k \in 1..n : FenceMatch(r, i, j, k)}
    IN  IF starts = {} THEN [matched |-> FALSE, group |-> <<>>]
        ELSE LET i == Min(starts)
                 j == Max({q \in 1..n : \E k \in 1..n : FenceMatch(r, i, q, k)})
                 k == Min({q \in 1..n : FenceMatch(r, i, j, q)})
             IN  [matched |-> TRUE, group |-> SubSeq(r, j + 1, k - 1)]

\* re.search(r'\{.*\}', response, re.DOTALL): from the first "{" that has a
\* "}" behind it to the last "}"
search_braces(r) ==
    LET opens == {i \in 1..Len(r) : r[i] = "{" /\ \E j \in (i + 1)..Len(r) : r[j] = "}"}
    IN  IF opens = {} THEN [matched |-> FALSE, group |-> <<>>]
        ELSE [matched |-> TRUE,
              group |-> SubSeq(r, Min(opens), Max({j \in 1..Len(r) : r[j] = "}"}))]

\* a truthy message content that is no str
NonStr == <<"NonStr">>

\* variant of _parse_ai_response that looks for braces before the code block
parse_braces_first(response) ==
    IF response = NonStr THEN [raised |-> TRUE, isDict |-> FALSE, dict |-> EmptyDict]
    ELSE LET blk == search_code_block(response)
             br == search_braces(response)
             v == IF br.matched THEN json_loads(br.group)
                  ELSE IF blk.matched THEN json_loads(Strip(blk.group))
                  ELSE json_loads(response)
         IN  [raised |-> ~v.ok, isDict |-> v.isDict, dict |-> v.dict]

\* EmailAnalyzer._parse_ai_response: raised is TRUE when it raises
\* (JSONDecodeError re-raised, TypeError of re.search on a non-str)
_parse_ai_response(response) ==
    IF response = NonStr THEN [raised |-> TRUE, isDict |-> FALSE, dict |-> EmptyDict]
    ELSE LET blk == search_code_block(response)
             br == search_braces(response)
             v == IF blk.matched THEN json_loads(Strip(blk.group))
                  ELSE IF br.matched THEN json_loads(br.group)
                  ELSE json_loads(response)
         IN  [raised |-> ~v.ok, isDict |-> v.isDict, dict |-> v.dict]

---------------------------------------------------------------------------
(* The completion endpoint *)

ContentChars == {"a", "u4e2d", "u00e9", "u00df", " "}

\* a Chinese text one character longer than the default summary, the
\* character behind the cut being a different one
LongContent == [i \in 1..(SummaryLen + 1) |-> IF i <= SummaryLen THEN "u4e2d" ELSE "a"]

Contents == SeqsUpTo(ContentChars, MaxContentLen) \cup {LongContent}

Senders == {"alice@example.com", ""}

Fenced(body) == <<"FENCE_JSON", "\n">> \o body \o <<"\n", "FENCE">>

AnswerPrefixes == {<<>>, <<"x", "\n">>, <<"{", "x", "}", "\n">>}

AnswerSuffixes ==
    {<<>>, <<"\n", "x">>, <<"\n", "{", "}">>,
     <<"\n">> \o Fenced(<<"{", "M_order", "}">>)}

AnswerBlocks ==
    {<<>>,
     Fenced(<<"{", "M_inquiry", "}">>),
     Fenced(<<"{", "\n", "M_spoof", "\n", "}">>),
     Fenced(<<"{", "M_spam", "}">>),
     Fenced(<<"{", "M_strbool", "}">>),
     Fenced(<<"x">>),
     Fenced(<<"1">>),
     Fenced(<<>>),
     <<"FENCE_JSON", "\n", "FENCE">>,
     <<"FENCE_JSON", " ", "{", "M_inquiry", "}", " ", "FENCE">>,
     <<"FENCE_JSON", " ", "\n", "\n", "{", "M_inquiry", "}", "\n", "FENCE">>,
     <<"FENCE_JSON", "\n", "\n", "FENCE", "\n", "{", "M_inquiry", "}", "\n", "FENCE">>,
     <<"FENCE_JSON", "x", "\n", "{", "M_inquiry", "}", "\n", "FENCE">>,
     <<"{", "M_inquiry", "}">>,
     <<"{", "}">>,
     <<"{", "x">>,
     <<"1">>,
     <<"[1]">>,
     <<"x">>}

\* the message contents a 200 answer may carry
AnswerTexts ==
    {pre \o blk \o suf : pre \in AnswerPrefixes, blk \in AnswerBlocks, suf \in AnswerSuffixes}
        \cup {NonStr}

\* what requests.post and the decoding of its envelope can do
AiFailureKinds == {"exception", "timeout", "non200", "bad_envelope"}

NoOutcome == [kind |-> "none", text |-> <<>>]

AiOutcomes ==
    [kind : AiFailureKinds, text : {<<>>}] \cup [kind : {"ok"}, text : AnswerTexts]

\* the value _call_ai_api returns for an outcome of its request
ai_response_of(outcome) == IF outcome.kind = "ok" THEN outcome.text ELSE None

---------------------------------------------------------------------------
(* EmailAnalyzer.analyze_email_content *)

\* _build_analysis_prompt: the fixed instructions around the content
_build_analysis_prompt(content, language) ==
    <<"PROMPT_HEAD">> \o content \o <<"PROMPT_TAIL">>

\* variant that never takes the early return
never_at_once(email_content) == FALSE

\* `if not email_content`
returns_default_at_once(email_content) == Falsy(email_content)

\* variant of attach_fields that keeps a field the answer already has
attach_missing_fields(analysis, detected_language, sender) ==
    [analysis EXCEPT
        !.keys = @ \cup {"detected_language", "sender"},
        !.detected_language =
            IF "detected_language" \in analysis.keys THEN @ ELSE detected_language,
        !.sender = IF "sender" \in analysis.keys THEN @ ELSE sender]

\* analysis['detected_language'] = detected_language; analysis['sender'] = sender
attach_fields(analysis, detected_language, sender) ==
    [analysis EXCEPT
        !.keys = @ \cup {"detected_language", "sender"},
        !.detected_language = detected_language,
        !.sender = sender]

\* what analyze_email_content returns once _call_ai_api has returned
\* ai_response: the item assignment on a decoded value that is no dict raises
\* a TypeError, which the except clause swallows
analysis_of(email_content, sender, detected_language, ai_response) ==
    IF ~Falsy(ai_response)
    THEN LET p == _parse_ai_response(ai_response)
         IN  IF p.raised \/ ~p.isDict
             THEN _get_default_analysis(email_content, detected_language)
             ELSE attach_fields(p.dict, detected_language, sender)
    ELSE _get_default_analysis(email_content, detected_language)

\* variant that calls the endpoint again after a failed request
pc_retrying(ai_response) == IF ai_response = None THEN "call" ELSE "finish"

\* where analyze_email_content goes on after _call_ai_api has returned
pc_after_call(ai_response) == "finish"

\* analyzer.analyze_email_content(email_content, sender) up to the AI call
AnalyzeEnter(email_content, sender) ==
    /\ aPc = "idle"
    /\ aContent' = email_content
    /\ aSender' = sender
    /\ IF returns_default_at_once(email_content)
       THEN /\ aResult' = _get_default_analysis(email_content, "zh")
            /\ aPc' = "returned"
            /\ UNCHANGED <<aLang, aPrompt>>
       ELSE /\ aLang' = detect_language(email_content)
            /\ aPrompt' = _build_analysis_prompt(email_content, aLang')
            /\ aPc' = "call"
            /\ UNCHANGED aResult
    /\ UNCHANGED <<aRequests, aOutcome, aResponse>>

\* _call_ai_api without a key: no request
AnalyzeNoKey ==
    /\ aPc = "call"
    /\ apiKey = ""
    /\ aResponse' = None
    /\ aPc' = pc_after_call(None)
    /\ UNCHANGED <<aContent, aSender, aLang, aPrompt, aRequests, aOutcome, aResult>>

\* _call_ai_api with a key: one requests.post
AnalyzeCallAi(outcome) ==
    /\ aPc = "call"
    /\ apiKey # ""
    /\ aRequests' = aRequests + 1
    /\ aOutcome' = outcome
    /\ aResponse' = ai_response_of(outcome)
    /\ aPc' = pc_after_call(aResponse')
    /\ UNCHANGED <<aContent, aSender, aLang, aPrompt, aResult>>

\* the rest of analyze_email_content
AnalyzeFinish ==
    /\ aPc = "finish"
    /\ aResult' = analysis_of(aContent, aSender, aLang, aResponse)
    /\ aPc' = "returned"
    /\ UNCHANGED <<aContent, aSender, aLang, aPrompt, aRequests, aOutcome, aResponse>>

AnalyzerIdle ==
    /\ aPc = "idle"
    /\ aContent = <<>>
    /\ aSender = ""
    /\ aLang = ""
    /\ aPrompt = None
    /\ aRequests = 0
    /\ aOutcome = NoOutcome
    /\ aResponse = None
    /\ aResult = NoAnalysis

---------------------------------------------------------------------------
(* ProcessedEmail (email_processor.py) *)

\* the value of `processed_email` when process_email returned None
NoEmail ==
    [from_email |-> "<None>", to_email |-> "", subject |-> <<>>, date |-> "",
     message_id |-> "", text_content |-> None, html_content |-> None,
     attachments |-> <<>>, raw_size |-> 0]

---------------------------------------------------------------------------
(* EmailTranslator (trans.py) *)

Fields == {"subject", "body"}

\* len(text.replace(' ', '').replace('\n', ''))
total_chars(text) == Cardinality({i \in 1..Len(text) : text[i] \notin {" ", "\n"}})

\* EmailTranslator._detect_language; chinese_chars / total_chars > 0.3 is
\* compared in integers
_detect_language(text) ==
    IF Falsy(text) THEN "unknown"
    ELSE IF total_chars(text) = 0 THEN "unknown"
    ELSE IF 10 * Count(text, IsCjk) > 3 * total_chars(text) THEN "zh"
    ELSE IF \E i \in 1..Len(text) : IsAsciiLetter(LowerChar(text[i])) THEN "en"
    ELSE "unknown"

\* variant of SupportedLanguages with one more code in the table
supported_with_xx == {"zh", "en", "ja", "ko", "fr", "de", "es", "ru", "xx"}

\* EmailTranslator.get_supported_languages (the keys)
SupportedLanguages == {"zh", "en", "ja", "ko", "fr", "de", "es", "ru"}

\* `not text or not text.strip()`
IsBlank(text) == Falsy(text) \/ Strip(text) = <<>>

\* what requests.post and the decoding of the answer can do in _translate_text
TransFailureKinds == {"timeout", "request_exception", "non200", "no_choices", "bad_content"}

\* the message contents a 200 answer to a translation request may carry
TransTexts == {<<"t", "r">>, <<" ", "t", "r", "\n">>, <<>>}

TransOutcomes ==
    [kind : TransFailureKinds, text : {<<>>}] \cup [kind : {"ok"}, text : TransTexts]

\* what _translate_text returns for an outcome of its request
translated_text(text, outcome) ==
    IF outcome.kind = "ok" THEN Strip(outcome.text) ELSE text

NoTranslation ==
    [success |-> "<None>", original_language |-> "", target_language |-> "",
     translated_subject |-> None, translated_content |-> None,
     has_error |-> FALSE, message |-> FALSE]

TranslatorIdle ==
    /\ tPc = "idle"
    /\ tEmail = NoEmail
    /\ tTarget = ""
    /\ tLang = ""
    /\ tRequests = [f \in Fields |-> 0]
    /\ tOutcome = [f \in Fields |-> NoOutcome]
    /\ tSubject = None
    /\ tContent = None
    /\ tResult = NoTranslation

\* variant of same_language for which no two languages are the same
never_same_language(original_language, target_language) == FALSE

\* `original_language == target_language`, the test for the early return
same_language(original_language, target_language) == original_language = target_language

\* translator.translate_email(processed_email, target_language) up to the
\* first call of _translate_text
TranslateEnter(processed_email, target_language) ==
    /\ tPc = "idle"
    /\ tEmail' = processed_email
    /\ tTarget' = target_language
    /\ tLang' = _detect_language(processed_email.text_content)
    /\ IF same_language(tLang', target_language)
       THEN /\ tResult' = [success |-> "True", original_language |-> tLang',
                           target_language |-> target_language,
                           translated_subject |-> processed_email.subject,
                           translated_content |-> processed_email.text_content,
                           has_error |-> FALSE, message |-> TRUE]
            /\ tPc' = "returned"
       ELSE /\ tPc' = "subject"
            /\ UNCHANGED tResult
    /\ UNCHANGED <<tRequests, tOutcome, tSubject, tContent>>

\* the text _translate_text is called with for the field at hand
field_text(field, email) == IF field = "subject" THEN email.subject ELSE email.text_content

\* _translate_text on a blank text: returned as it is, without a request
TranslateBlank ==
    /\ tPc \in Fields
    /\ IsBlank(field_text(tPc, tEmail))
    /\ IF tPc = "subject"
       THEN tSubject' = tEmail.subject /\ tPc' = "body" /\ UNCHANGED tContent
       ELSE tContent' = tEmail.text_content /\ tPc' = "build" /\ UNCHANGED tSubject
    /\ UNCHANGED <<tEmail, tTarget, tLang, tRequests, tOutcome, tResult>>

\* _translate_text on any other text: one requests.post
TranslateCall(outcome) ==
    /\ tPc \in Fields
    /\ ~IsBlank(field_text(tPc, tEmail))
    /\ tRequests' = [tRequests EXCEPT ![tPc] = @ + 1]
    /\ tOutcome' = [tOutcome EXCEPT ![tPc] = outcome]
    /\ IF tPc = "subject"
       THEN /\ tSubject' = translated_text(tEmail.subject, outcome)
            /\ tPc' = "body"
            /\ UNCHANGED tContent
       ELSE /\ tContent' = translated_text(tEmail.text_content, outcome)
            /\ tPc' = "build"
            /\ UNCHANGED tSubject
    /\ UNCHANGED <<tEmail, tTarget, tLang, tResult>>

\* the return statement of translate_email: len(processed_email.text_content)
\* raises a TypeError on None, and so does the except clause that handles it
TranslateBuild ==
    /\ tPc = "build"
    /\ IF tEmail.text_content = None
       THEN tPc' = "raised" /\ UNCHANGED tResult
       ELSE /\ tResult' = [success |-> "True", original_language |-> tLang,
                           target_language |-> tTarget,
                           translated_subject |-> tSubject,
                           translated_content |-> tContent,
                           has_error |-> FALSE, message |-> FALSE]
            /\ tPc' = "returned"
    /\ UNCHANGED <<tEmail, tTarget, tLang, tRequests, tOutcome, tSubject, tContent>>

---------------------------------------------------------------------------
(* EmailProcessor (email_processor.py) *)

Secrets == {"s1", "s2"}

\* hmac.new(key, msg, sha256).hexdigest(): 64 hex digits, taken to be free
\* of collisions
HmacHex(key, msg) == "hmac-sha256(" \o key \o "," \o msg \o ")"

\* signatures that are no str of ASCII characters: compare_digest raises
NonAsciiSigs == {"sig-u00e9"}

\* EmailProcessor.verify_signature
verify_signature(inbound_secret, raw_b64, sig_hex) ==
    IF sig_hex \in NonAsciiSigs THEN FALSE
    ELSE HmacHex(inbound_secret, raw_b64) = sig_hex

Part(ctype, disp, filename, content, decode) ==
    [ctype |-> ctype, disp |-> disp, filename |-> filename, content |-> content,
     decode |-> decode]

\* an EmailMessage: the headers present, and a single body or the leaf parts
Message(headers, from, subject, multipart, ctype, body, parts, size) ==
    [headers |-> headers, from |-> from, to |-> "ai@kr777.top", subject |-> subject,
     message_id |-> "<m1@example.com>", date |-> "Thu, 05 Nov 2026 10:00:00 +0000",
     multipart |-> multipart, ctype |-> ctype, body |-> body, decode |-> "ok",
     parts |-> parts, size |-> size]

AllHeaders == {"From", "To", "Subject", "Message-ID", "Date", "Content-Type"}

LongBody == [i \in 1..(MaxEmailContentLength + 1) |-> "a"]

\* a body of exactly the configured maximum length
ExactBody == [i \in 1..MaxEmailContentLength |-> "a"]

\* the raw_base64 values of the requests
RawPayloads ==
    {"", "b64:garbage", "b64:no_headers", "b64:plain_en", "b64:plain_zh",
     "b64:html_only", "b64:multipart", "b64:blank_body", "b64:no_from", "b64:long",
     "b64:long_html", "b64:multipart_long"}

\* base64.b64decode followed by BytesParser.parsebytes: ok is FALSE when one
\* of them raises
decode_and_parse(raw_b64) ==
    LET m(msg) == [ok |-> TRUE, msg |-> msg]
        plain(from, body, size) ==
            Message(AllHeaders, from, <<"a">>, FALSE, "text/plain", body, <<>>, size)
    IN  CASE raw_b64 = "" ->
                m(Message({}, "", <<>>, FALSE, "text/plain", <<>>, <<>>, 0))
          [] raw_b64 = "b64:no_headers" ->
                m(Message({}, "", <<>>, FALSE, "text/plain", <<"a">>, <<>>, 3))
          [] raw_b64 = "b64:plain_en" -> m(plain("alice@example.com", <<"a", " ", "a">>, 90))
          [] raw_b64 = "b64:plain_zh" -> m(plain("alice@example.com", <<"u4e2d", "u4e2d">>, 92))
          [] raw_b64 = "b64:html_only" ->
                m(Message(AllHeaders, "alice@example.com", <<"a">>, FALSE, "text/html",
                          <<"a">>, <<>>, 95))
          [] raw_b64 = "b64:multipart" ->
                m(Message(AllHeaders, "Bob <bob@example.com>", <<"A", "a">>, TRUE,
                          "multipart/mixed", <<>>,
                          <<Part("text/plain", "none", "", <<"a">>, "ok"),
                            Part("text/plain", "inline", "", <<" ">>, "ok"),
                            Part("text/html", "none", "", <<"a", "a">>, "ok"),
                            Part("text/plain", "none", "", <<"u00e9">>, "fail"),
                            Part("text/plain", "attachment", "n.txt", <<"a">>, "ok"),
                            Part("application/pdf", "attachment", "f.pdf", <<>>, "ok")>>,
                          400))
          [] raw_b64 = "b64:blank_body" -> m(plain("alice@example.com", <<>>, 80))
          [] raw_b64 = "b64:no_from" ->
                m(Message(AllHeaders \ {"From", "Subject"}, "", <<>>, FALSE, "text/plain",
                          <<"a">>, <<>>, 60))
          [] raw_b64 = "b64:long" -> m(plain("alice@example.com", LongBody, 120))
          [] raw_b64 = "b64:long_html" ->
                m(Message(AllHeaders, "alice@example.com", <<"a">>, FALSE, "text/html",
                          LongBody, <<>>, 125))
          [] raw_b64 = "b64:multipart_long" ->
                m(Message(AllHeaders, "alice@example.com", <<"a">>, TRUE,
                          "multipart/alternative", <<>>,
                          <<Part("text/plain", "none", "", LongBody, "ok"),
                            Part("text/html", "none", "", ExactBody, "ok")>>,
                          300))
          [] OTHER -> [ok |-> FALSE, msg |-> Message({}, "", <<>>, FALSE, "", <<>>, <<>>, 0)]

\* "\n\n".join(parts)
RECURSIVE JoinParts(_)
JoinParts(ps) ==
    IF Len(ps) = 0 THEN <<>>
    ELSE IF Len(ps) = 1 THEN ps[1]
    ELSE ps[1] \o <<"\n", "\n">> \o JoinParts(Tail(ps))

\* `x or None`
OrNone(x) == IF x = <<>> THEN None ELSE x

\* the plain_parts / html_parts list of extract_text_parts for one type: a
\* part that is an attachment, cannot be decoded or is empty adds nothing
parts_of_type(msg, ctype) ==
    LET kept == SelectSeq(msg.parts,
                    LAMBDA q : /\ q.disp # "attachment"
                               /\ q.ctype = ctype
                               /\ q.decode = "ok"
                               /\ q.content # <<>>)
    IN  [i \in 1..Len(kept) |-> kept[i].content]

\* EmailProcessor.extract_text_parts: <<text_plain, text_html>>
extract_text_parts(msg) ==
    IF msg.multipart
    THEN LET nonblank(ps) == SelectSeq(ps, LAMBDA c : Strip(c) # <<>>)
         IN  <<OrNone(JoinParts(nonblank(parts_of_type(msg, "text/plain")))),
               OrNone(JoinParts(nonblank(parts_of_type(msg, "text/html"))))>>
    ELSE IF msg.decode # "ok" THEN <<None, None>>
    ELSE IF msg.ctype = "text/plain" THEN <<msg.body, None>>
    ELSE IF msg.ctype = "text/html" THEN <<None, msg.body>>
    ELSE <<None, None>>

\* EmailProcessor.extract_attachments
extract_attachments(msg) ==
    IF ~msg.multipart THEN <<>>
    ELSE LET att == SelectSeq(msg.parts,
                        LAMBDA q : q.disp = "attachment" /\ q.filename # "")
         IN  [i \in 1..Len(att) |->
                [filename |-> att[i].filename, content_type |-> att[i].ctype,
                 size |-> Len(att[i].content)]]

TruncationMarker == <<".", ".", ".", "[", "u5185", "u5bb9", "u5df2", "u622a", "u65ad", "]">>

\* variant of truncate that also cuts a text of exactly the maximum length
truncate_from_max(text, max_content_length) ==
    IF ~Falsy(text) /\ Len(text) >= max_content_length
    THEN Take(text, max_content_length) \o TruncationMarker
    ELSE text

\* the length limit of process_email on one of the two contents
truncate(text, max_content_length) ==
    IF ~Falsy(text) /\ Len(text) > max_content_length
    THEN Take(text, max_content_length) \o TruncationMarker
    ELSE text

\* msg.get(name, default)
header(msg, name, value, default) == IF name \in msg.headers THEN value ELSE default

\* variant of process_email that goes on after a failed verification
process_email_ungated(inbound_secret, raw_b64, signature) ==
    LET sigOk == verify_signature(inbound_secret, raw_b64, signature)
        p == decode_and_parse(raw_b64)
        msg == p.msg
        t == extract_text_parts(msg)
    IN  IF ~p.ok \/ msg.headers = {}
        THEN [verified |-> sigOk, parsed |-> TRUE, email |-> NoEmail]
        ELSE [verified |-> sigOk, parsed |-> TRUE,
              email |-> [from_email |-> header(msg, "From", msg.from, ""),
                         to_email |-> header(msg, "To", msg.to, ""),
                         subject |-> header(msg, "Subject", msg.subject,
                                            <<"u65e0", "u4e3b", "u9898">>),
                         date |-> header(msg, "Date", msg.date, ""),
                         message_id |-> header(msg, "Message-ID", msg.message_id, ""),
                         text_content |-> truncate(t[1], MaxEmailContentLength),
                         html_content |-> truncate(t[2], MaxEmailContentLength),
                         attachments |-> extract_attachments(msg),
                         raw_size |-> msg.size]]

\* EmailProcessor.process_email: the email is NoEmail when it returns None;
\* verified and parsed record whether the signature was accepted and whether
\* parse_raw_email was called (`if not msg` is true of a message without
\* header fields)
process_email(inbound_secret, raw_b64, signature) ==
    IF ~verify_signature(inbound_secret, raw_b64, signature)
    THEN [verified |-> FALSE, parsed |-> FALSE, email |-> NoEmail]
    ELSE LET p == decode_and_parse(raw_b64)
             msg == p.msg
             t == extract_text_parts(msg)
         IN  IF ~p.ok \/ msg.headers = {}
             THEN [verified |-> TRUE, parsed |-> TRUE, email |-> NoEmail]
             ELSE [verified |-> TRUE, parsed |-> TRUE,
                   email |-> [from_email |-> header(msg, "From", msg.from, ""),
                              to_email |-> header(msg, "To", msg.to, ""),
                              subject |-> header(msg, "Subject", msg.subject,
                                                 <<"u65e0", "u4e3b", "u9898">>),
                              date |-> header(msg, "Date", msg.date, ""),
                              message_id |-> header(msg, "Message-ID", msg.message_id, ""),
                              text_content |-> truncate(t[1], MaxEmailContentLength),
                              html_content |-> truncate(t[2], MaxEmailContentLength),
                              attachments |-> extract_attachments(msg),
                              raw_size |-> msg.size]]

---------------------------------------------------------------------------
(* DataStorage (data_storage.py) *)

LogCap == 1000

\* variant of log_activity that keeps the oldest entries of a full log
log_activity_keep_oldest(log, activity_type) ==
    LET l == Append(log, activity_type)
    IN  IF Len(l) > LogCap THEN SubSeq(l, 1, LogCap) ELSE l

\* DataStorage.log_activity, the log file being writable
log_activity(log, activity_type) ==
    LET l == Append(log, activity_type)
    IN  IF Len(l) > LogCap THEN SubSeq(l, Len(l) - LogCap + 1, Len(l)) ELSE l

\* the record DataStorage.save_email appends
email_record(processed_email, analysis_result, send_result) ==
    [email_data |-> processed_email, analysis_result |-> analysis_result,
     send_result |-> send_result, processing_status |-> "completed"]

---------------------------------------------------------------------------
(* Forwarded mail and the user's instruction (utils.py) *)

\* `sub in s`
Contains(s, sub) ==
    \E i \in 0..(Len(s) - Len(sub)) : SubSeq(s, i + 1, i + Len(sub)) = sub

\* s.split('\n')
RECURSIVE SplitNl(_)
SplitNl(s) ==
    LET nl == {i \in 1..Len(s) : s[i] = "\n"}
    IN  IF nl = {} THEN <<s>>
        ELSE <<SubSeq(s, 1, Min(nl) - 1)>> \o SplitNl(SubSeq(s, Min(nl) + 1, Len(s)))

\* '\n'.join(ls)
RECURSIVE JoinNl(_)
JoinNl(ls) ==
    IF Len(ls) = 0 THEN <<>>
    ELSE IF Len(ls) = 1 THEN ls[1]
    ELSE ls[1] \o <<"\n">> \o JoinNl(Tail(ls))

\* forwarded_indicators
forwarded_indicators ==
    <<<<"f", "w", "d", ":">>,
      <<"f", "w", ":">>,
      <<"u8f6c", "u53d1", ":">>,
      <<"u8f6c", "uff1a">>,
      <<"f", "o", "r", "w", "a", "r", "d", ":">>,
      <<"f", "o", "r", "w", "a", "r", "d", "e", "d", ":">>>>

\* content_indicators[:-4]
banner_indicators ==
    <<<<"f", "o", "r", "w", "a", "r", "d", "e", "d", " ", "m", "e", "s", "s", "a", "g", "e">>,
      <<"u8f6c", "u53d1", "u7684", "u90ae", "u4ef6">>,
      <<"u8f6c", "u53d1", "u90ae", "u4ef6">>,
      <<"o", "r", "i", "g", "i", "n", "a", "l", " ", "m", "e", "s", "s", "a", "g", "e">>,
      <<"u539f", "u59cb", "u90ae", "u4ef6">>,
      <<"-", "-", "-", "-", "-", "-", "-", "-", "-", "-", " ", "f", "o", "r", "w", "a", "r", "d", "e", "d", " ", "m", "e", "s", "s", "a", "g", "e">>>>

\* content_indicators[-4:]
header_indicators ==
    <<<<"f", "r", "o", "m", ":">>,
      <<"s", "e", "n", "t", ":">>,
      <<"t", "o", ":">>,
      <<"s", "u", "b", "j", "e", "c", "t", ":">>>>

\* the header indicators needed for a content to count as forwarded
HeaderCountMin == 2

\* variant of is_forwarded_email for which one header indicator is enough
is_forwarded_one_header(subject, content) ==
    IF Falsy(subject) /\ Falsy(content) THEN FALSE
    ELSE \/ ~Falsy(subject) /\ \E k \in 1..Len(forwarded_indicators) :
                                  Contains(Lower(subject), forwarded_indicators[k])
         \/ ~Falsy(content) /\ \E k \in 1..Len(header_indicators) :
                                  Contains(Lower(content), header_indicators[k])
         \/ ~Falsy(content) /\ \E k \in 1..Len(banner_indicators) :
                                  Contains(Lower(content), banner_indicators[k])

\* is_forwarded_email
is_forwarded_email(subject, content) ==
    IF Falsy(subject) /\ Falsy(content) THEN FALSE
    ELSE LET subject_lower == IF Falsy(subject) THEN <<>> ELSE Lower(subject)
         IN  IF \E k \in 1..Len(forwarded_indicators) :
                    Contains(subject_lower, forwarded_indicators[k])
             THEN TRUE
             ELSE IF Falsy(content) THEN FALSE
             ELSE LET content_lower == Lower(content)
                      header_count ==
                          Cardinality({k \in 1..Len(header_indicators) :
                                          Contains(content_lower, header_indicators[k])})
                  IN  IF header_count >= HeaderCountMin THEN TRUE
                      ELSE \E k \in 1..Len(banner_indicators) :
                              Contains(content_lower, banner_indicators[k])

\* forwarded_separators
forwarded_separators ==
    <<<<"-", "-", "-", "-", "-", "-", "-", "-", "-", "-", " ", "f", "o", "r", "w", "a", "r", "d", "e", "d", " ", "m", "e", "s", "s", "a", "g", "e", " ", "-", "-", "-", "-", "-", "-", "-", "-", "-", "-">>,
      <<"-", "-", "-", "-", "-", "-", "-", "-", " ", "o", "r", "i", "g", "i", "n", "a", "l", " ", "m", "e", "s", "s", "a", "g", "e", " ", "-", "-", "-", "-", "-", "-", "-", "-">>,
      <<"-", "-", "-", "-", "-", "o", "r", "i", "g", "i", "n", "a", "l", " ", "m", "e", "s", "s", "a", "g", "e", "-", "-", "-", "-", "-">>,
      <<"b", "e", "g", "i", "n", " ", "f", "o", "r", "w", "a", "r", "d", "e", "d", " ", "m", "e", "s", "s", "a", "g", "e", ":">>,
      <<"u8f6c", "u53d1", "u90ae", "u4ef6">>,
      <<"u539f", "u59cb", "u90ae", "u4ef6">>,
      <<"-", "-", "-", "-", "-", "-", "-", "-", "-", "-", " ", "u8f6c", "u53d1", "u7684", "u90ae", "u4ef6", " ", "-", "-", "-", "-", "-", "-", "-", "-", "-", "-">>,
      <<"-", "-", "-", "-", "-", "-", "-", "-", " ", "u539f", "u90ae", "u4ef6", " ", "-", "-", "-", "-", "-", "-", "-", "-">>,
      <<"f", "r", "o", "m", ":">>,
      <<"s", "e", "n", "t", ":">>,
      <<"t", "o", ":">>,
      <<"s", "u", "b", "j", "e", "c", "t", ":">>,
      <<"u53d1", "u4ef6", "u4eba", ":">>,
      <<"u53d1", "u9001", "u65f6", "u95f4", ":">>,
      <<"u6536", "u4ef6", "u4eba", ":">>,
      <<"u4e3b", "u9898", ":">>>>

\* a line on which the loop of extract_user_instruction stops
is_separator(line) ==
    \E k \in 1..Len(forwarded_separators) :
        Contains(Strip(Lower(line)), forwarded_separators[k])

\* user_instruction_lines: the stripped non-blank lines before the first
\* separator line
RECURSIVE user_instruction_lines(_)
user_instruction_lines(lines) ==
    IF Len(lines) = 0 \/ is_separator(lines[1]) THEN <<>>
    ELSE (IF Strip(lines[1]) # <<>> THEN <<Strip(lines[1])>> ELSE <<>>)
             \o user_instruction_lines(Tail(lines))

\* an instruction shorter than this is dropped
MinInstructionLen == 3

\* variant of extract_user_instruction that ignores the forwarding flag
extract_ungated(content, is_forwarded) ==
    IF Falsy(content) THEN <<>>
    ELSE LET user_instruction == Strip(JoinNl(user_instruction_lines(SplitNl(content))))
         IN  IF Len(user_instruction) < MinInstructionLen THEN <<>> ELSE user_instruction

\* extract_user_instruction
extract_user_instruction(content, is_forwarded) ==
    IF Falsy(content) \/ ~is_forwarded THEN <<>>
    ELSE LET user_instruction == Strip(JoinNl(user_instruction_lines(SplitNl(content))))
         IN  IF Len(user_instruction) < MinInstructionLen THEN <<>> ELSE user_instruction

---------------------------------------------------------------------------
(* The reply composer: EmailAnalyzer.generate_reply (ai_analyzer.py) *)
(* The fixed passages of the reply templates are written as one token   *)
(* each; what is put between them is written out.                       *)

\* analysis.get(key, default)
Get(analysis, key, default) ==
    IF key \in analysis.keys THEN analysis[key] ELSE default

\* the truth value Python gives a bool, a str or None
Truthy(v) == v \notin {"False", "", "None"}

\* variant of _determine_reply_language that always follows the detected language
reply_language_detected(analysis, is_forwarded) ==
    Get(analysis, "detected_language", "zh")

\* EmailAnalyzer._determine_reply_language
_determine_reply_language(analysis, is_forwarded) ==
    IF is_forwarded THEN Get(analysis, "detected_language", "zh") ELSE "zh"

\* re.sub(r'<[^>]+>', '', content): the first ">" after a "<" closes the
\* tag if at least one character lies between them
RECURSIVE strip_tags(_)
strip_tags(content) ==
    LET close(i) == Min({j \in (i + 1)..Len(content) : content[j] = ">"})
        opens == {i \in 1..Len(content) :
                     /\ content[i] = "<"
                     /\ \E j \in (i + 1)..Len(content) : content[j] = ">"
                     /\ close(i) >= i + 2}
    IN  IF opens = {} THEN content
        ELSE SubSeq(content, 1, Min(opens) - 1)
                 \o strip_tags(SubSeq(content, close(Min(opens)) + 1, Len(content)))

\* the loop of _clean_original_content: lines stripped, a run of blank
\* lines kept as one
RECURSIVE collapse_blank_lines(_, _)
collapse_blank_lines(lines, prev_empty) ==
    IF Len(lines) = 0 THEN <<>>
    ELSE LET line == Strip(lines[1])
         IN  IF line = <<>>
             THEN (IF prev_empty THEN <<>> ELSE << <<>> >>)
                      \o collapse_blank_lines(Tail(lines), TRUE)
             ELSE <<line>> \o collapse_blank_lines(Tail(lines), FALSE)

\* the two while loops of _clean_original_content
trim_blank_lines(lines) ==
    LET full == {i \in 1..Len(lines) : lines[i] # <<>>}
    IN  IF full = {} THEN <<>> ELSE SubSeq(lines, Min(full), Max(full))

\* EmailAnalyzer._clean_original_content
_clean_original_content(content) ==
    IF Falsy(content) THEN <<>>
    ELSE JoinNl(trim_blank_lines(collapse_blank_lines(SplitNl(strip_tags(content)), FALSE)))

QuoteHeaderEn == <<"\n", "\n", "-", "-", "-", " ", "O", "r", "i", "g", "i", "n", "a", "l", " ", "M", "e", "s", "s", "a", "g", "e", " ", "-", "-", "-", "\n">>
QuoteHeaderZh == <<"\n", "\n", "-", "-", "-", " ", "u539f", "u90ae", "u4ef6", " ", "-", "-", "-", "\n">>
QuotePrefix == <<">", " ">>

\* variant of _add_original_quote that quotes a blank original as well
quote_always(reply_body, original_content, language) ==
    LET lines == SplitNl(_clean_original_content(original_content))
    IN  reply_body
            \o (IF language = "en" THEN QuoteHeaderEn ELSE QuoteHeaderZh)
            \o JoinNl([i \in 1..Len(lines) |-> QuotePrefix \o lines[i]])

\* EmailAnalyzer._add_original_quote
_add_original_quote(reply_body, original_content, language) ==
    IF Falsy(original_content) \/ Strip(original_content) = <<>> THEN reply_body
    ELSE LET lines == SplitNl(_clean_original_content(original_content))
         IN  reply_body
                 \o (IF language = "en" THEN QuoteHeaderEn ELSE QuoteHeaderZh)
                 \o JoinNl([i \in 1..Len(lines) |-> QuotePrefix \o lines[i]])

\* an item of requires_info.split(',')
RECURSIVE SplitComma(_)
SplitComma(s) ==
    LET cs == {i \in 1..Len(s) : s[i] = ","}
    IN  IF cs = {} THEN <<s>>
        ELSE <<SubSeq(s, 1, Min(cs) - 1)>> \o SplitComma(SubSeq(s, Min(cs) + 1, Len(s)))

Bullet == <<"u2022", " ">>

\* EmailAnalyzer._format_required_info
_format_required_info(requires_info) ==
    IF Falsy(requires_info) THEN Bullet \o <<"u66f4", "u591a", "u8be6", "u7ec6", "u4fe1", "u606f">>
    ELSE IF \E i \in 1..Len(requires_info) : requires_info[i] = ","
    THEN LET parts == SplitComma(requires_info)
             items == SelectSeq([i \in 1..Len(parts) |-> Strip(parts[i])],
                                LAMBDA it : it # <<>>)
         IN  JoinNl([i \in 1..Len(items) |-> Bullet \o items[i]])
    ELSE Bullet \o requires_info

\* EmailAnalyzer._generate_detailed_info_request
_generate_detailed_info_request(analysis) ==
    LET intent == Get(analysis, "intent", "u672au77e5")
        urgency == Get(analysis, "urgency", "normal")
    IN  <<"ZH_DETAIL_TYPE", intent, "ZH_DETAIL_URGENCY", urgency, "ZH_DETAIL_END">>
            \o (IF urgency = "high" THEN <<"ZH_DETAIL_HIGH">>
                ELSE IF urgency = "low" THEN <<"ZH_DETAIL_LOW">>
                ELSE <<>>)

\* the longest summary quoted by the English and by the Chinese auto-reply
EnSummaryLen == 200
ZhSummaryLen == 300

\* the most todo items listed
TodoMax == 5

Digits == <<"1", "2", "3", "4", "5">>

\* "\n\n".join(detail_parts)
RECURSIVE JoinParagraphs(_)
JoinParagraphs(ps) ==
    IF Len(ps) = 0 THEN <<>>
    ELSE IF Len(ps) = 1 THEN ps[1]
    ELSE ps[1] \o <<"\n", "\n">> \o JoinParagraphs(Tail(ps))

\* EmailAnalyzer._generate_detailed_auto_reply
_generate_detailed_auto_reply(analysis, summary) ==
    LET intent == Get(analysis, "intent", "u672au77e5")
        urgency == Get(analysis, "urgency", "normal")
        todo_items == Get(analysis, "todo_items", <<>>)
        shown == Take(todo_items, TodoMax)
    IN  JoinParagraphs(
            << <<"ZH_AUTO_TYPE", intent, "ZH_AUTO_TYPE_END">> >>
            \o (IF summary # <<>>
                THEN << <<"ZH_AUTO_SUMMARY">> \o Take(summary, ZhSummaryLen) >>
                ELSE <<>>)
            \o (IF todo_items # <<>>
                THEN << <<"ZH_AUTO_TODO">> >>
                         \o [i \in 1..Len(shown) |-> <<Digits[i], ".", " ">> \o shown[i]]
                ELSE <<>>)
            \o (IF urgency = "high" THEN << <<"ZH_AUTO_HIGH">> >>
                ELSE IF urgency = "medium" THEN << <<"ZH_AUTO_MEDIUM">> >>
                ELSE <<>>))

InfoSuffixEn == <<" ", "-", " ", "A", "d", "d", "i", "t", "i", "o", "n", "a", "l", " ", "I", "n", "f", "o", "r", "m", "a", "t", "i", "o", "n", " ", "N", "e", "e", "d", "e", "d">>
InfoSuffixZh == <<" ", "-", " ", "u9700", "u8981", "u8865", "u5145", "u4fe1", "u606f">>
RePrefix == <<"R", "e", ":", " ">>

\* EmailAnalyzer._generate_info_request_reply
_generate_info_request_reply(analysis, subject, original_content, language, is_forwarded) ==
    LET requires_info == Get(analysis, "requires_info", <<"u66f4", "u591a", "u8be6", "u7ec6", "u4fe1", "u606f">>)
        main_topic == Get(analysis, "main_topic", <<"u60a8", "u7684", "u8bf7", "u6c42">>)
        english == language = "en" /\ is_forwarded
        reply_body ==
            IF english
            THEN <<"EN_INFO_REGARDING">> \o main_topic \o <<"EN_INFO_NEED">>
                     \o requires_info \o <<"EN_INFO_END", "SES_FROM_EMAIL">>
            ELSE <<"ZH_INFO_REGARDING">> \o main_topic \o <<"ZH_INFO_REVIEWED">>
                     \o _generate_detailed_info_request(analysis)
                     \o <<"ZH_INFO_NEED">> \o _format_required_info(requires_info)
                     \o <<"ZH_INFO_END">>
    IN  [subject |-> RePrefix \o subject \o (IF english THEN InfoSuffixEn ELSE InfoSuffixZh),
         body |-> _add_original_quote(reply_body, original_content, language)]

\* EmailAnalyzer._generate_auto_reply; ticket is what _generate_ticket_id
\* returns
_generate_auto_reply(analysis, subject, original_content, language, is_forwarded, ticket) ==
    LET main_topic == Get(analysis, "main_topic", <<"u60a8", "u7684", "u8bf7", "u6c42">>)
        summary == Get(analysis, "chinese_content", <<>>)
        reply_body ==
            IF language = "en" /\ is_forwarded
            THEN <<"EN_AUTO_REGARDING">> \o main_topic \o <<"EN_AUTO_RECEIVED">>
                     \o (IF summary # <<>> THEN Take(summary, EnSummaryLen)
                         ELSE <<"EN_AUTO_WILL_PROCESS">>)
                     \o <<"EN_AUTO_END">>
            ELSE <<"ZH_AUTO_REGARDING">> \o main_topic \o <<"ZH_AUTO_RECEIVED">>
                     \o _generate_detailed_auto_reply(analysis, summary)
                     \o <<"ZH_AUTO_PROCESS">> \o ticket \o <<"ZH_AUTO_END">>
    IN  [subject |-> RePrefix \o subject,
         body |-> _add_original_quote(reply_body, original_content, language)]

\* variant of generate_reply that takes the AI's draft whatever need_reply is
generate_reply_any_draft(analysis, original_subject, original_content, is_forwarded, ticket) ==
    LET reply_language == _determine_reply_language(analysis, is_forwarded)
    IN  IF Get(analysis, "reply_content", <<>>) # <<>>
        THEN [subject |-> RePrefix \o original_subject,
              body |-> _add_original_quote(analysis.reply_content, original_content,
                                           reply_language)]
        ELSE _generate_info_request_reply(analysis, original_subject, original_content,
                                          reply_language, is_forwarded)

\* EmailAnalyzer.generate_reply
generate_reply(analysis, original_subject, original_content, is_forwarded, ticket) ==
    LET reply_language == _determine_reply_language(analysis, is_forwarded)
    IN  IF Get(analysis, "reply_content", <<>>) # <<>>
           /\ Truthy(Get(analysis, "need_reply", "False"))
        THEN [subject |-> RePrefix \o original_subject,
              body |-> _add_original_quote(analysis.reply_content, original_content,
                                           reply_language)]
        ELSE IF Truthy(Get(analysis, "can_auto_reply", "False"))
        THEN _generate_auto_reply(analysis, original_subject, original_content,
                                  reply_language, is_forwarded, ticket)
        ELSE _generate_info_request_reply(analysis, original_subject, original_content,
                                          reply_language, is_forwarded)

---------------------------------------------------------------------------
(* The reply step of inbound (main.py) and EmailSender.send_reply_email *)

\* the From values EmailSender.validate_email_address accepts, of those a
\* message of the model carries
ValidAddresses == {"alice@example.com", "Bob <bob@example.com>"}

\* EmailSender.validate_email_address
validate_email_address(email) == email \in ValidAddresses

\* the subject EmailSender.send_reply_email gives the reply
reply_subject(original_subject) ==
    IF Len(original_subject) >= 3 /\ SubSeq(original_subject, 1, 3) = <<"R", "e", ":">>
    THEN original_subject
    ELSE <<"R", "e", ":", " ">> \o original_subject

NothingHanded == [to |-> "", subject |-> <<>>, body |-> <<>>]

\* EmailSender.send_reply_email up to its call of send_email: the message
\* handed on, NothingHanded for an address that is not valid
send_reply_email(to_email, original_subject, reply_content) ==
    IF ~validate_email_address(to_email) THEN NothingHanded
    ELSE [to |-> to_email, subject |-> reply_subject(original_subject),
          body |-> reply_content]

\* inbound, from the call of generate_reply to the call of send_reply_email:
\* what the composer returned and what is handed to the transport
reply_step(analysis_result, processed_email, is_forwarded, ticket) ==
    LET composed == generate_reply(analysis_result, processed_email.subject,
                                   processed_email.text_content, is_forwarded, ticket)
    IN  [composed |-> composed,
         handed |-> send_reply_email(processed_email.from_email,
                                     processed_email.subject, composed.body)]

\* what _generate_ticket_id may return
Tickets == {<<"T", "K", "1", "2", "3", "4", "5", "6", "1", "0", "0", "0">>}

---------------------------------------------------------------------------
(* The request handlers (main.py) *)

\* positional parameters of analyze_email_content besides self
AnalyzeParams == 2

\* positional arguments of the call in inbound
InboundAnalyzeArgs == 3

\* positional arguments of the call in analyze_text
AnalyzeTextArgs == 3

\* a Python call binds its positional arguments or raises a TypeError
call_binds(nargs, nparams) == nargs <= nparams

ServerIdle ==
    /\ endpoint = "none"
    /\ pc = "idle"
    /\ reqRaw = ""
    /\ reqSig = ""
    /\ reqTarget = ""
    /\ verified = "unset"
    /\ parseAttempted = FALSE
    /\ processed = NoEmail
    /\ analysisResult = NoAnalysis
    /\ analyzeCalls = 0
    /\ analyzeRaised = FALSE
    /\ sendResult = "None"
    /\ sent = <<>>
    /\ emails = <<>>
    /\ logs = <<>>
    /\ status = 0

\* POST /inbound and POST /inbound/trans/{target_language} up to the call of
\* process_email
Receive(ep, raw_b64, sig, target_language) ==
    /\ pc = "idle"
    /\ endpoint' = ep
    /\ reqRaw' = raw_b64
    /\ reqSig' = sig
    /\ reqTarget' = target_language
    /\ logs' = log_activity(logs, IF ep = "inbound" THEN "email_received"
                                  ELSE "translation_request_received")
    /\ pc' = "received"
    /\ UNCHANGED <<verified, parseAttempted, processed, analysisResult, analyzeCalls,
                   analyzeRaised, sendResult, sent, emails, status>>
    /\ UNCHANGED <<cvars, avars, tvars, fvars, svars>>

\* processor.process_email and the 400 answer of both handlers
Process ==
    /\ pc = "received"
    /\ LET r == process_email(secret, reqRaw, reqSig)
       IN  /\ verified' = IF r.verified THEN "True" ELSE "False"
           /\ parseAttempted' = r.parsed
           /\ processed' = r.email
           /\ IF r.email = NoEmail
              THEN /\ logs' = log_activity(logs,
                                 IF endpoint = "inbound" THEN "email_processing_failed"
                                 ELSE "translation_email_processing_failed")
                   /\ status' = 400
                   /\ pc' = "done"
              ELSE /\ pc' = "processed"
                   /\ UNCHANGED <<logs, status>>
    /\ UNCHANGED <<endpoint, reqRaw, reqSig, reqTarget, analysisResult, analyzeCalls,
                   analyzeRaised, sendResult, sent, emails>>
    /\ UNCHANGED <<cvars, avars, tvars, fvars, svars>>

\* inbound: the AI analysis block.  The call passes three positional
\* arguments; a TypeError of the call is caught and logged.
InboundAnalyze ==
    /\ pc = "processed"
    /\ endpoint = "inbound"
    /\ IF autoReply /\ ~Falsy(processed.text_content)
       THEN /\ analyzeCalls' = analyzeCalls + 1
            /\ IF call_binds(InboundAnalyzeArgs, AnalyzeParams)
               THEN /\ AnalyzeEnter(processed.text_content, processed.from_email)
                    /\ pc' = "analyzing"
                    /\ UNCHANGED <<analyzeRaised, logs>>
               ELSE /\ analyzeRaised' = TRUE
                    /\ logs' = log_activity(logs, "analysis_failed")
                    /\ pc' = "analyzed"
                    /\ UNCHANGED avars
       ELSE /\ pc' = "analyzed"
            /\ UNCHANGED <<analyzeCalls, analyzeRaised, logs, avars>>
    /\ UNCHANGED <<endpoint, reqRaw, reqSig, reqTarget, verified, parseAttempted,
                   processed, analysisResult, sendResult, sent, emails, status>>
    /\ UNCHANGED <<cvars, tvars, fvars, svars>>

\* POST /analyze
AnalyzeText(text, sender) ==
    /\ pc = "idle"
    /\ endpoint' = "analyze"
    /\ analyzeCalls' = analyzeCalls + 1
    /\ IF call_binds(AnalyzeTextArgs, AnalyzeParams)
       THEN /\ AnalyzeEnter(text, sender)
            /\ pc' = "analyzing"
            /\ UNCHANGED <<analyzeRaised, status>>
       ELSE /\ analyzeRaised' = TRUE
            /\ status' = 500
            /\ pc' = "done"
            /\ UNCHANGED avars
    /\ UNCHANGED <<reqRaw, reqSig, reqTarget, verified, parseAttempted, processed,
                   analysisResult, sendResult, sent, emails, logs>>
    /\ UNCHANGED <<cvars, tvars, fvars, svars>>

\* the handlers once the analysis is over: analyze_text answers; inbound
\* composes and sends the reply if there is an analysis and a sender
AfterAnalysis(transport, ticket) ==
    /\ \/ pc = "analyzed"
       \/ pc = "analyzing" /\ aPc = "returned"
    /\ LET result == IF pc = "analyzing" THEN aResult ELSE NoAnalysis
           analysed == IF pc = "analyzing" THEN log_activity(logs, "email_analyzed") ELSE logs
       IN  /\ analysisResult' = result
           /\ IF endpoint = "analyze"
              THEN /\ status' = 200
                   /\ pc' = "done"
                   /\ UNCHANGED <<sendResult, sent, logs>>
              ELSE /\ pc' = "replied"
                   /\ UNCHANGED status
                   /\ IF processed.from_email # "" /\ result # NoAnalysis
                      THEN LET is_forwarded == is_forwarded_email(processed.subject,
                                                                 processed.text_content)
                               handed == reply_step(result, processed, is_forwarded,
                                                    ticket).handed
                           IN  IF handed = NothingHanded
                               THEN /\ sendResult' = "failed"
                                    /\ logs' = log_activity(analysed, "reply_failed")
                                    /\ UNCHANGED sent
                               ELSE /\ sendResult' = transport
                                    /\ sent' = Append(sent,
                                                  [kind |-> "reply", to |-> handed.to,
                                                   subject |-> handed.subject,
                                                   body |-> handed.body])
                                    /\ logs' = log_activity(analysed,
                                                  IF transport = "failed" THEN "reply_failed"
                                                  ELSE "reply_sent")
                      ELSE /\ logs' = analysed
                           /\ UNCHANGED <<sendResult, sent>>
    /\ UNCHANGED <<endpoint, reqRaw, reqSig, reqTarget, verified, parseAttempted,
                   processed, analyzeCalls, analyzeRaised, emails>>
    /\ UNCHANGED <<cvars, avars, tvars, fvars, svars>>

\* inbound: storage.save_email and the answer; the write may fail
InboundSave(written) ==
    /\ pc = "replied"
    /\ emails' = IF written
                 THEN Append(emails, email_record(processed, analysisResult, sendResult))
                 ELSE emails
    /\ status' = 200
    /\ pc' = "done"
    /\ UNCHANGED <<endpoint, reqRaw, reqSig, reqTarget, verified, parseAttempted,
                   processed, analysisResult, analyzeCalls, analyzeRaised, sendResult, sent, logs>>
    /\ UNCHANGED <<cvars, avars, tvars, fvars, svars>>

\* translate_inbound_with_language: the check of the target language and the
\* call of translator.translate_email
TransValidate ==
    /\ pc = "processed"
    /\ endpoint = "trans"
    /\ IF reqTarget \notin SupportedLanguages
       THEN /\ logs' = log_activity(logs, "unsupported_language")
            /\ status' = 400
            /\ pc' = "done"
            /\ UNCHANGED tvars
       ELSE /\ TranslateEnter(processed, reqTarget)
            /\ pc' = "translating"
            /\ UNCHANGED <<logs, status>>
    /\ UNCHANGED <<endpoint, reqRaw, reqSig, reqTarget, verified, parseAttempted,
                   processed, analysisResult, analyzeCalls, analyzeRaised, sendResult, sent, emails>>
    /\ UNCHANGED <<cvars, avars, fvars, svars>>

\* translate_inbound_with_language once translate_email is over: an exception
\* is answered with an error body; a successful result is mailed to the sender
TransFinish(transport) ==
    /\ pc = "translating"
    /\ tPc \in {"returned", "raised"}
    /\ IF tPc = "raised"
       THEN /\ logs' = log_activity(logs, "translation_exception")
            /\ UNCHANGED <<sendResult, sent>>
       ELSE IF tResult.success = "True"
       THEN /\ sendResult' = transport
            /\ sent' = Append(sent,
                          [kind |-> "translation", to |-> processed.from_email,
                           subject |-> <<"u7ffb", "u8bd1", "u7ed3", "u679c", ":", " ">>
                                           \o tResult.translated_subject])
            /\ logs' = log_activity(
                          log_activity(logs, IF transport = "failed"
                                             THEN "translation_send_failed"
                                             ELSE "translation_sent"),
                          "translation_completed")
       ELSE /\ logs' = log_activity(logs, "translation_failed")
            /\ UNCHANGED <<sendResult, sent>>
    /\ status' = 200
    /\ pc' = "done"
    /\ UNCHANGED <<endpoint, reqRaw, reqSig, reqTarget, verified, parseAttempted,
                   processed, analysisResult, analyzeCalls, analyzeRaised, emails>>
    /\ UNCHANGED <<cvars, avars, tvars, fvars, svars>>

---------------------------------------------------------------------------
(* The analyzer called directly with the arguments of its signature *)

InitAnalyze ==
    /\ secret = "s1"
    /\ apiKey \in {"", "key"}
    /\ autoReply = TRUE
    /\ AnalyzerIdle
    /\ TranslatorIdle
    /\ ServerIdle
    /\ NoCall
    /\ StorageIdle

NextAnalyze ==
    \/ (\E c \in Contents, s \in Senders : AnalyzeEnter(c, s)) /\ UNCHANGED <<cvars, tvars, hvars, fvars, svars>>
    \/ AnalyzeNoKey /\ UNCHANGED <<cvars, tvars, hvars, fvars, svars>>
    \/ (\E o \in AiOutcomes : AnalyzeCallAi(o)) /\ UNCHANGED <<cvars, tvars, hvars, fvars, svars>>
    \/ AnalyzeFinish /\ UNCHANGED <<cvars, tvars, hvars, fvars, svars>>

SpecAnalyze == InitAnalyze /\ [][NextAnalyze]_vars

---------------------------------------------------------------------------
(* The analyzer and the translator called side by side, each once *)

Email(subject, text_content, html_content) ==
    [from_email |-> "alice@example.com", to_email |-> "ai@kr777.top",
     subject |-> subject, date |-> "Thu, 05 Nov 2026 10:00:00 +0000",
     message_id |-> "<m1@example.com>", text_content |-> text_content,
     html_content |-> html_content, attachments |-> <<>>, raw_size |-> 0]

ServiceEmails ==
    {Email(sj, t, None) : sj \in {<<"a">>, <<>>}, t \in {<<"a">>, <<"u4e2d">>, <<" ">>, None}}

ServiceTargets == {"zh", "en"}

ServiceContents == {<<>>, <<"a">>, <<"u4e2d">>}

ServiceOutcomes ==
    [kind : AiFailureKinds, text : {<<>>}]
        \cup [kind : {"ok"}, text : {Fenced(<<"{", "M_inquiry", "}">>), <<"x">>, <<>>}]

InitServices ==
    /\ secret = "s1"
    /\ apiKey \in {"", "key"}
    /\ autoReply = TRUE
    /\ AnalyzerIdle
    /\ TranslatorIdle
    /\ ServerIdle
    /\ NoCall
    /\ StorageIdle

NextServices ==
    \/ (\E c \in ServiceContents : AnalyzeEnter(c, "alice@example.com"))
            /\ UNCHANGED <<cvars, tvars, hvars, fvars, svars>>
    \/ AnalyzeNoKey /\ UNCHANGED <<cvars, tvars, hvars, fvars, svars>>
    \/ (\E o \in ServiceOutcomes : AnalyzeCallAi(o)) /\ UNCHANGED <<cvars, tvars, hvars, fvars, svars>>
    \/ AnalyzeFinish /\ UNCHANGED <<cvars, tvars, hvars, fvars, svars>>
    \/ (\E e \in ServiceEmails, t \in ServiceTargets : TranslateEnter(e, t))
            /\ UNCHANGED <<cvars, avars, hvars, fvars, svars>>
    \/ TranslateBlank /\ UNCHANGED <<cvars, avars, hvars, fvars, svars>>
    \/ (\E o \in TransOutcomes : TranslateCall(o)) /\ UNCHANGED <<cvars, avars, hvars, fvars, svars>>
    \/ TranslateBuild /\ UNCHANGED <<cvars, avars, hvars, fvars, svars>>

SpecServices == InitServices /\ [][NextServices]_vars

---------------------------------------------------------------------------
(* The application serving requests *)

\* the signatures a request may carry
Signatures ==
    {HmacHex(k, r) : k \in Secrets, r \in RawPayloads}
        \cup {"", "deadbeef"} \cup NonAsciiSigs

\* the target languages a request may name
Targets == {"zh", "en", "xx"}

Transports == {"SES", "SMTP", "failed"}

Init ==
    /\ secret \in Secrets
    /\ apiKey \in {"", "key"}
    /\ autoReply \in BOOLEAN
    /\ AnalyzerIdle
    /\ TranslatorIdle
    /\ ServerIdle
    /\ NoCall
    /\ StorageIdle

Next ==
    \/ \E raw \in RawPayloads, sig \in Signatures : Receive("inbound", raw, sig, "")
    \/ \E raw \in RawPayloads, sig \in Signatures, t \in Targets :
          Receive("trans", raw, sig, t)
    \/ Process
    \/ InboundAnalyze
    \/ \E c \in ServiceContents, s \in Senders : AnalyzeText(c, s)
    \/ \E tr \in Transports, tk \in Tickets : AfterAnalysis(tr, tk)
    \/ \E w \in BOOLEAN : InboundSave(w)
    \/ TransValidate
    \/ TranslateBlank /\ UNCHANGED <<cvars, avars, hvars, fvars, svars>>
    \/ (\E o \in TransOutcomes : TranslateCall(o)) /\ UNCHANGED <<cvars, avars, hvars, fvars, svars>>
    \/ TranslateBuild /\ UNCHANGED <<cvars, avars, hvars, fvars, svars>>
    \/ \E tr \in Transports : TransFinish(tr)

Spec == Init /\ [][Next]_vars

---------------------------------------------------------------------------
(* Functions of the program called directly, each once *)

DetectChars ==
    {"a", "A", "1", " ", "\t", "u4e2d", "u9fff", "ua000", "u3042",
     "u00e9", "u00c9", "u00df", "u1e9e"}

\* n times the character c
Repeat(c, n) == [i \in 1..n |-> c]

\* texts that put the share of CJK characters at, below and above 0.3
RatioTexts ==
    {Repeat("u4e2d", 3) \o Repeat("1", 7),
     Repeat("u4e2d", 3) \o Repeat("a", 7),
     Repeat("u4e2d", 4) \o Repeat("a", 6),
     Repeat("u4e2d", 3) \o Repeat("a", 6) \o <<" ">>,
     Repeat("u4e2d", 3) \o Repeat("a", 6) \o <<"\t">>,
     <<"u4e2d">> \o Repeat("\t", 3),
     <<"u4e2d">> \o Repeat(" ", 3)}

DetectTexts == SeqsUpTo(DetectChars, MaxTextLen) \cup RatioTexts

\* analyzer.detect_language(text)
CallDetectLanguage(text) ==
    /\ fn = "none"
    /\ fn' = "detect_language"
    /\ fArgs' = [text |-> text]
    /\ fResult' = detect_language(text)

\* translator._detect_language(text)
CallTransDetectLanguage(text) ==
    /\ fn = "none"
    /\ fn' = "_detect_language"
    /\ fArgs' = [text |-> text]
    /\ fResult' = _detect_language(text)

\* the subjects is_forwarded_email is called with
FwdSubjects ==
    {<<>>,
     <<"h", "e", "l", "l", "o">>,
     <<"F", "w", "d", ":", " ", "h", "i">>,
     <<"F", "W", ":", " ", "h", "i">>,
     <<"F", "w", " ", "h", "i">>,
     <<"u8f6c", "u53d1", ":", " ", "x">>,
     <<"u8f6c", "uff1a", "x">>,
     <<"u8f6c", "u53d1", " ", "x">>,
     <<"F", "o", "r", "w", "a", "r", "d", "e", "d", ":", " ", "x">>,
     <<"R", "e", ":", " ", "h", "i">>}

\* the pieces contents are put together from: header lines, a line that
\* only holds "to:" inside a word, short and padded lines of the user, a
\* blank line, banners, and a Chinese header line
ContentPieces ==
    {<<"F", "r", "o", "m", ":", " ", "a", "\n">>,
     <<"T", "o", ":", " ", "b", "\n">>,
     <<"p", "h", "o", "t", "o", ":", " ", "c", "\n">>,
     <<"h", "i", "\n">>,
     <<" ", "P", "l", "e", "a", "s", "e", " ", "d", "o", " ", "\n">>,
     <<"\n">>,
     <<"F", "o", "r", "w", "a", "r", "d", "e", "d", " ", "m", "e", "s", "s", "a", "g", "e", "\n">>,
     <<"u539f", "u59cb", "u90ae", "u4ef6", "\n">>,
     <<"S", "u", "b", "j", "e", "c", "t", ":", " ", "e">>,
     <<"u4e3b", "u9898", ":", " ", "x", "\n">>}

\* most pieces of a content
MaxPieces == 2

RECURSIVE Flatten(_)
Flatten(ss) == IF Len(ss) = 0 THEN <<>> ELSE ss[1] \o Flatten(Tail(ss))

FwdContents == {Flatten(ps) : ps \in SeqsUpTo(ContentPieces, MaxPieces)}

\* is_forwarded_email(subject, content)
CallIsForwarded(subject, content) ==
    /\ fn = "none"
    /\ fn' = "is_forwarded_email"
    /\ fArgs' = [subject |-> subject, content |-> content]
    /\ fResult' = is_forwarded_email(subject, content)

\* extract_user_instruction(content, is_forwarded)
CallExtractInstruction(content, is_forwarded) ==
    /\ fn = "none"
    /\ fn' = "extract_user_instruction"
    /\ fArgs' = [content |-> content, is_forwarded |-> is_forwarded]
    /\ fResult' = extract_user_instruction(content, is_forwarded)

\* the analysis results generate_reply is called with: well-formed ones,
\* one whose booleans are JSON strings, the result for the answer "{}" and a
\* default analysis
ReplyAnalyses ==
    {[FullKeys EXCEPT !.keys = AnalysisKeys \cup {"detected_language", "sender"},
                      !.detected_language = l, !.need_reply = n, !.can_auto_reply = c,
                      !.reply_content = r, !.requires_info = q] :
        l \in {"zh", "en", "fr"}, n \in {"True", "False", "'false'"},
        c \in {"True", "False"}, r \in {<<>>, <<"H", "i">>},
        q \in {<<>>, <<"a", ",", " ", "b">>}}
    \cup {attach_fields(EmptyDict, "en", ""), _get_default_analysis(<<"a">>, "en")}

ReplySubjects == {<<"h", "i">>,
     <<"R", "e", ":", " ", "h", "i">>}

ReplyContents ==
    {<<>>,
     <<" ">>,
     <<"a">>,
     <<" ", "a", " ", "\n", "\n", "\n", "b", "\n">>,
     <<"<", "b", ">", "a", "<", "/", "b", ">">>,
     <<"<", "b", ">">>,
     <<"a", "<", "b", "\n", "c", ">", "\n", "d">>,
     <<"a", "<", ">", "b">>}

\* analyzer.generate_reply(analysis, original_subject, original_content,
\* is_forwarded_email)
CallGenerateReply(analysis, original_subject, original_content, is_forwarded, ticket) ==
    /\ fn = "none"
    /\ fn' = "generate_reply"
    /\ fArgs' = [analysis |-> analysis, original_subject |-> original_subject,
                 original_content |-> original_content, is_forwarded |-> is_forwarded]
    /\ fResult' = generate_reply(analysis, original_subject, original_content,
                                 is_forwarded, ticket)

\* the reply texts a quote is appended to
QuoteBodies == {<<"H", "i">>, <<>>}

\* analyzer._add_original_quote(reply_body, original_content, language)
CallAddOriginalQuote(reply_body, original_content, language) ==
    /\ fn = "none"
    /\ fn' = "_add_original_quote"
    /\ fArgs' = [reply_body |-> reply_body, original_content |-> original_content,
                 language |-> language]
    /\ fResult' = _add_original_quote(reply_body, original_content, language)

\* the requires_info values the list is formatted for: none, one item, two
\* items, an empty item between two, and commas and blanks only
RequiredInfos ==
    {<<>>, <<"a">>, <<" ">>, <<"a", ",", " ", "b">>, <<"a", ",", ",", "b">>,
     <<",">>, <<" ", ",", " ">>}

\* analyzer._format_required_info(requires_info)
CallFormatRequiredInfo(requires_info) ==
    /\ fn = "none"
    /\ fn' = "_format_required_info"
    /\ fArgs' = [requires_info |-> requires_info]
    /\ fResult' = _format_required_info(requires_info)

\* EmailSender.send_email: the result dict, and which of send_email_ses and
\* send_email_smtp were called.  ses_message_id is what send_email_ses
\* returns (a MessageId, or "None" when it failed) and smtp_success what
\* send_email_smtp returns.
send_email(prefer_ses, ses_client, ses_message_id, smtp_success) ==
    LET try_ses == prefer_ses /\ ses_client
        ses_sent == try_ses /\ ses_message_id # "None"
        error_after_ses == IF try_ses THEN "SES_FAILED_TRYING_SMTP" ELSE "None"
    IN  IF ses_sent
        THEN [result |-> [success |-> "True", method |-> "SES",
                          message_id |-> ses_message_id, error |-> "None"],
              ses_called |-> TRUE, smtp_called |-> FALSE]
        ELSE [result |-> IF smtp_success
                         THEN [success |-> "True", method |-> "SMTP",
                               message_id |-> "None", error |-> error_after_ses]
                         ELSE [success |-> "False", method |-> "None",
                               message_id |-> "None", error |-> "SES_AND_SMTP_FAILED"],
              ses_called |-> try_ses, smtp_called |-> TRUE]

\* sender.send_email(...) with a SES client or none and what the two
\* transports answer
CallSendEmail(prefer_ses, ses_client, ses_message_id, smtp_success) ==
    /\ fn = "none"
    /\ fn' = "send_email"
    /\ fArgs' = [prefer_ses |-> prefer_ses, ses_client |-> ses_client,
                 ses_message_id |-> ses_message_id, smtp_success |-> smtp_success]
    /\ fResult' = send_email(prefer_ses, ses_client, ses_message_id, smtp_success)

\* the emails the reply step is entered with
ReplyEmails ==
    {[NoEmail EXCEPT !.from_email = f, !.to_email = "ai@kr777.top", !.subject = sub,
                     !.text_content = c] :
        f \in {"alice@example.com", "Bob <bob@example.com>", "mailer-daemon"},
        sub \in ReplySubjects \cup {<<"F", "w", "d", ":", " ", "h", "i">>},
        c \in ReplyContents \ {<<>>}}

\* the reply step of inbound for an analysis result and a processed email
CallReplyStep(analysis_result, processed_email, ticket) ==
    /\ fn = "none"
    /\ fn' = "reply_step"
    /\ fArgs' = [analysis |-> analysis_result, email |-> processed_email]
    /\ fResult' = reply_step(analysis_result, processed_email,
                             is_forwarded_email(processed_email.subject,
                                                processed_email.text_content),
                             ticket)

InitFunctions ==
    /\ secret = "s1"
    /\ apiKey = "key"
    /\ autoReply = TRUE
    /\ AnalyzerIdle
    /\ TranslatorIdle
    /\ ServerIdle
    /\ NoCall
    /\ StorageIdle

NextFunctions ==
    \/ (\E t \in DetectTexts : CallDetectLanguage(t))
          /\ UNCHANGED <<cvars, avars, tvars, hvars, svars>>
    \/ (\E t \in DetectTexts : CallTransDetectLanguage(t))
          /\ UNCHANGED <<cvars, avars, tvars, hvars, svars>>
    \/ (\E sub \in FwdSubjects, c \in FwdContents : CallIsForwarded(sub, c))
          /\ UNCHANGED <<cvars, avars, tvars, hvars, svars>>
    \/ (\E c \in FwdContents, f \in BOOLEAN : CallExtractInstruction(c, f))
          /\ UNCHANGED <<cvars, avars, tvars, hvars, svars>>
    \/ (\E a \in ReplyAnalyses, sub \in ReplySubjects, c \in ReplyContents,
            f \in BOOLEAN, t \in Tickets : CallGenerateReply(a, sub, c, f, t))
          /\ UNCHANGED <<cvars, avars, tvars, hvars, svars>>
    \/ (\E a \in ReplyAnalyses, e \in ReplyEmails, t \in Tickets : CallReplyStep(a, e, t))
          /\ UNCHANGED <<cvars, avars, tvars, hvars, svars>>
    \/ (\E b \in QuoteBodies, c \in ReplyContents, l \in {"zh", "en", "fr"} :
            CallAddOriginalQuote(b, c, l))
          /\ UNCHANGED <<cvars, avars, tvars, hvars, svars>>
    \/ (\E q \in RequiredInfos : CallFormatRequiredInfo(q))
          /\ UNCHANGED <<cvars, avars, tvars, hvars, svars>>
    \/ (\E p \in BOOLEAN, c \in BOOLEAN, m \in {"None", "mid-1"}, ok \in BOOLEAN :
            CallSendEmail(p, c, m, ok))
          /\ UNCHANGED <<cvars, avars, tvars, hvars, svars>>

SpecFunctions == InitFunctions /\ [][NextFunctions]_vars

---------------------------------------------------------------------------
(* Requests served by separate workers: each calls log_activity and then  *)
(* save_email on the files all workers share                               *)

\* the calls of one request, by the file they load and save
WorkerProgram == <<"logs", "emails">>

\* the call the worker is at, "none" after the last
CallOf(w) == IF wStep[w] <= Len(WorkerProgram) THEN WorkerProgram[wStep[w]] ELSE "none"

\* the log entry of the worker's request; the entries logged before are
\* numbered from 1
LogEntry(w) == LogCap + w

\* the email of the worker's request
WorkerEmail(w) == Email(IF w = 1 THEN <<"a">> ELSE <<"A">>, <<"a">>, None)

\* the numbers of entries the log holds when the workers start
PriorLogLengths == {0, LogCap - 1, LogCap}

\* _load_logs / _load_emails of the call the worker is at
StorageLoad(w) ==
    /\ wPc[w] = "idle"
    /\ CallOf(w) # "none"
    /\ wData' = [wData EXCEPT ![w] = IF CallOf(w) = "logs" THEN logs ELSE emails]
    /\ wPc' = [wPc EXCEPT ![w] = "loaded"]
    /\ overlapped' = (overlapped
                        \/ \E o \in Workers \ {w} :
                              wPc[o] = "loaded" /\ CallOf(o) = CallOf(w))
    /\ UNCHANGED <<wStep, acked, appended, emails, logs>>

\* the rest of log_activity / save_email: the entry is appended to the
\* loaded list and the list written over the file; the call returns False
\* and leaves the file alone when the file cannot be opened for writing
StorageSave(w, written) ==
    /\ wPc[w] = "loaded"
    /\ IF CallOf(w) = "logs"
       THEN /\ logs' = IF written THEN log_activity(wData[w], LogEntry(w)) ELSE logs
            /\ appended' = IF written THEN Append(appended, LogEntry(w)) ELSE appended
            /\ acked' = IF written THEN acked \cup {<<"logs", w>>} ELSE acked
            /\ UNCHANGED emails
       ELSE /\ emails' = IF written
                         THEN Append(wData[w], email_record(WorkerEmail(w), NoAnalysis, "None"))
                         ELSE emails
            /\ acked' = IF written THEN acked \cup {<<"emails", w>>} ELSE acked
            /\ UNCHANGED <<logs, appended>>
    /\ wPc' = [wPc EXCEPT ![w] = "idle"]
    /\ wStep' = [wStep EXCEPT ![w] = @ + 1]
    /\ wData' = [wData EXCEPT ![w] = <<>>]
    /\ UNCHANGED overlapped

InitStorage ==
    /\ secret = "s1"
    /\ apiKey = "key"
    /\ autoReply = TRUE
    /\ AnalyzerIdle
    /\ TranslatorIdle
    /\ NoCall
    /\ endpoint = "none"
    /\ pc = "idle"
    /\ reqRaw = ""
    /\ reqSig = ""
    /\ reqTarget = ""
    /\ verified = "unset"
    /\ parseAttempted = FALSE
    /\ processed = NoEmail
    /\ analysisResult = NoAnalysis
    /\ analyzeCalls = 0
    /\ analyzeRaised = FALSE
    /\ sendResult = "None"
    /\ sent = <<>>
    /\ status = 0
    /\ emails = <<>>
    /\ \E n \in PriorLogLengths : logs = [i \in 1..n |-> i]
    /\ appended = logs
    /\ wPc = [w \in Workers |-> "idle"]
    /\ wStep = [w \in Workers |-> 1]
    /\ wData = [w \in Workers |-> <<>>]
    /\ acked = {}
    /\ overlapped = FALSE

\* what no call of the storage changes
StorageFrame ==
    UNCHANGED <<cvars, avars, tvars, fvars, endpoint, pc, reqRaw, reqSig, reqTarget,
                verified, parseAttempted, processed, analysisResult, analyzeCalls,
                analyzeRaised, sendResult, sent, status>>

NextStorage ==
    \/ (\E w \in Workers : StorageLoad(w)) /\ StorageFrame
    \/ (\E w \in Workers, written \in BOOLEAN : StorageSave(w, written)) /\ StorageFrame

SpecStorage == InitStorage /\ [][NextStorage]_vars

---------------------------------------------------------------------------
(* Claims about the analyzer *)

\* the default analysis as the specification words it
DefaultAsSpecified(content, language) ==
    [keys |-> {"intent", "urgency", "can_auto_reply", "chinese_content", "todo_items",
               "main_topic", "requires_info", "sentiment", "need_reply",
               "reply_content", "detected_language"},
     intent |-> "other", urgency |-> "medium", can_auto_reply |-> "False",
     chinese_content |->
        IF language = "zh"
        THEN [i \in 1..(IF Len(content) > 100 THEN 100 ELSE Len(content)) |-> content[i]]
        ELSE <<"u9700", "u8981", "u4eba", "u5de5", "u7ffb", "u8bd1">>,
     todo_items |-> << <<"u4eba", "u5de5", "u5904", "u7406", "u90ae", "u4ef6">> >>,
     main_topic |-> <<"u672a", "u77e5", "u4e3b", "u9898">>,
     requires_info |-> <<"u9700", "u8981", "u4eba", "u5de5", "u5206", "u6790">>,
     sentiment |-> "neutral", detected_language |-> language,
     need_reply |-> "True", reply_content |-> <<>>, sender |-> ""]

\* the AI call of this invocation failed: no key, an exception or timeout, a
\* status other than 200, or a text that cannot be decoded
AiCallFailed ==
    \/ apiKey = ""
    \/ aOutcome.kind \in AiFailureKinds
    \/ aOutcome.kind = "ok" /\ _parse_ai_response(aOutcome.text).raised

\* C5: for non-empty content, when the key is missing, the call raises or
\* times out, the status is not 200 or the text cannot be decoded, analyze
\* returns exactly the default analysis (summary = first 100 characters for
\* zh, the fixed string otherwise) with the language the detector found.
C5_FallbackOnAiFailure ==
    (aPc = "returned" /\ aContent # <<>> /\ AiCallFailed)
        => aResult = DefaultAsSpecified(aContent, detect_language(aContent))

\* a Chinese content longer than the summary fell back after a failed call
C5_Witness ==
    /\ aPc = "returned"
    /\ aContent = LongContent
    /\ aOutcome.kind = "timeout"
    /\ Len(aResult.chinese_content) = SummaryLen
    /\ aResult.detected_language = "zh"

\* C7: analyze on empty content returns the default result at once, with
\* detected_language "zh", need_reply true and reply_content "", without
\* building a prompt and without an AI call.
C7_EmptyContentDefault ==
    (aPc = "returned" /\ aContent = <<>>)
        => /\ aResult = DefaultAsSpecified(<<>>, "zh")
           /\ aResult.detected_language = "zh"
           /\ aResult.need_reply = "True"
           /\ aResult.reply_content = <<>>
           /\ aPrompt = None
           /\ aRequests = 0
           /\ aOutcome = NoOutcome

\* an invocation with empty content has returned, a key being configured
C7_Witness ==
    aPc = "returned" /\ aContent = <<>> /\ apiKey # "" /\ aResult.intent = "other"

\* the shape of an AnalysisResult
MatchesShape(d) ==
    /\ AnalysisKeys \subseteq d.keys
    /\ "detected_language" \in d.keys
    /\ d.intent \in {"inquiry", "request", "complaint", "meeting", "order", "support", "other"}
    /\ d.urgency \in {"low", "medium", "high"}
    /\ d.sentiment \in {"positive", "neutral", "negative"}
    /\ d.can_auto_reply \in {"True", "False"}
    /\ d.need_reply \in {"True", "False"}

\* C8: every result analyze returns matches the AnalysisResult shape; a JSON
\* answer that does not match it is replaced by the default analysis.
C8_ResultMatchesShape ==
    aPc = "returned" => MatchesShape(aResult)

\* the lines of a text (split at "\n")
RECURSIVE Lines(_)
Lines(r) ==
    LET nl == {i \in 1..Len(r) : r[i] = "\n"}
    IN  IF nl = {} THEN <<r>>
        ELSE <<SubSeq(r, 1, Min(nl) - 1)>> \o Lines(SubSeq(r, Min(nl) + 1, Len(r)))

RECURSIVE JoinLines(_)
JoinLines(ls) ==
    IF Len(ls) = 0 THEN <<>>
    ELSE IF Len(ls) = 1 THEN ls[1]
    ELSE ls[1] \o <<"\n">> \o JoinLines(Tail(ls))

\* a line that ends in the ```json marker, blanks aside
OpensBlock(line) ==
    \E p \in 1..Len(line) :
        line[p] = "FENCE_JSON" /\ \A q \in (p + 1)..Len(line) : line[q] = " "

\* a line that begins with three backticks
ClosesBlock(line) == Len(line) > 0 /\ line[1] \in {"FENCE", "FENCE_JSON"}

\* the pairs (opening line, closing line) of the fenced blocks of a text
BlocksOf(ls) ==
    {ab \in (1..Len(ls)) \X (1..Len(ls)) :
        OpensBlock(ls[ab[1]]) /\ ab[2] >= ab[1] + 2 /\ ClosesBlock(ls[ab[2]])}

\* the body of the first fenced block of a text that has one
FirstBlockBody(r) ==
    LET ls == Lines(r)
        a == Min({ab[1] : ab \in BlocksOf(ls)})
        b == Min({ab[2] : ab \in {x \in BlocksOf(ls) : x[1] = a}})
    IN  JoinLines(SubSeq(ls, a + 1, b - 1))

\* the text the answer is decoded from, by the priority of the specification
DecodedPart(r) ==
    IF BlocksOf(Lines(r)) # {} THEN FirstBlockBody(r)
    ELSE IF \E i, j \in 1..Len(r) : i < j /\ r[i] = "{" /\ r[j] = "}"
    THEN SubSeq(r, Min({i \in 1..Len(r) : r[i] = "{"}), Max({j \in 1..Len(r) : r[j] = "}"}))
    ELSE r

C10_LanguageFromDetector ==
    aPc = "returned"
        => /\ "detected_language" \in aResult.keys
           /\ aResult.detected_language =
                 (IF aContent = <<>> THEN "zh" ELSE detect_language(aContent))
           /\ "sender" \in aResult.keys => aResult.sender = aSender

\* an answer that supplies detected_language and sender was accepted
C10_Witness ==
    /\ aPc = "returned"
    /\ aOutcome.kind = "ok"
    /\ aOutcome.text = Fenced(<<"{", "\n", "M_spoof", "\n", "}">>)
    /\ aContent = <<"a">>
    /\ aResult.intent = "inquiry"
    /\ aResult.detected_language = "en"
    /\ aResult.sender = aSender

---------------------------------------------------------------------------
(* Claims about the AI calls of the two services *)

\* C6: one invocation of analyze issues at most one request to the
\* completion endpoint and one invocation of translate at most one per field;
\* no request follows a failed, timed-out or malformed answer.
C6_NoRetry ==
    /\ aRequests <= 1
    /\ \A f \in Fields : tRequests[f] <= 1
    /\ (aPc = "returned" /\ aOutcome.kind \in AiFailureKinds) => aRequests = 1
    /\ \A f \in Fields :
          (tPc \in {"returned", "raised"} /\ tOutcome[f].kind \in TransFailureKinds)
              => tRequests[f] = 1

\* both invocations are over, each after a failed request
C6_Witness ==
    /\ aPc = "returned"
    /\ aOutcome.kind = "timeout"
    /\ aRequests = 1
    /\ tPc = "returned"
    /\ tOutcome["subject"].kind = "timeout"
    /\ tOutcome["body"].kind = "non200"
    /\ tRequests = [f \in Fields |-> 1]

---------------------------------------------------------------------------
(* Claims about the request handlers, checked under Spec *)

\* C1: signature gate.  On /inbound and on /inbound/trans, once
\* verify_signature has returned false the request is over with status 400:
\* parse_raw_email was not called, there is no ProcessedEmail, the analyzer
\* and the translator were not called and issued no request, nothing was
\* handed to the mail transport and no email record was saved.
C1_SignatureGate ==
    verified = "False" =>
        /\ pc = "done"
        /\ status = 400
        /\ ~parseAttempted
        /\ processed = NoEmail
        /\ analyzeCalls = 0
        /\ aPc = "idle" /\ aRequests = 0
        /\ tPc = "idle" /\ \A f \in Fields : tRequests[f] = 0
        /\ sent = <<>>
        /\ emails = <<>>

\* a well-formed email, signed with a secret that is not the server's, was
\* turned away on the translation endpoint
C1_Witness ==
    /\ endpoint = "trans"
    /\ pc = "done"
    /\ reqRaw = "b64:plain_en"
    /\ \E k \in Secrets \ {secret} : reqSig = HmacHex(k, reqRaw)
    /\ verified = "False"
    /\ status = 400

\* C2: verify_signature returns false whenever raw_base64 or the signature
\* is the empty string, the signature being the correct HMAC of the empty
\* payload included.
C2_VerifyFalseOnEmptyInput ==
    (verified # "unset" /\ (reqRaw = "" \/ reqSig = "")) => verified = "False"

\* C3: a call of analyze_email_content as the inbound handler and the
\* analyze endpoint make it does not raise, and the analyze endpoint answers
\* with an analysis result.
C3_AnalyzeNeverFailsOutward ==
    analyzeCalls > 0 =>
        /\ ~analyzeRaised
        /\ (endpoint = "analyze" /\ pc = "done") =>
               (status = 200 /\ analysisResult # NoAnalysis)

\* C4: every record saved for an inbound request that passed verification
\* and parsing carries an analysis result that is not None.
C4_NoAcceptedMessageUnanalyzed ==
    (endpoint = "inbound" /\ verified = "True" /\ processed # NoEmail) =>
        \A i \in 1..Len(emails) : emails[i].analysis_result # NoAnalysis

---------------------------------------------------------------------------
(* Claims about functions, checked under SpecFunctions *)

\* number of positions of text whose character satisfies the code point range
InRange(text, lo, hi) ==
    Cardinality({i \in 1..Len(text) : lo <= CodePoint(text[i]) /\ CodePoint(text[i]) <= hi})

\* the text, compared without regard to case, has a character of the set
HasCharOf(text, S) == \E i \in 1..Len(text) : LowerChar(text[i]) \in S

\* the language the analysis path is to detect
AnalysisLanguageAsSpecified(text) ==
    LET cjk == InRange(text, 19968, 40959)
        latin == InRange(text, 65, 90) + InRange(text, 97, 122)
    IN  CASE text = <<>> -> "zh"
          [] text # <<>> /\ cjk > latin -> "zh"
          [] text # <<>> /\ cjk <= latin /\ latin > 0 -> "en"
          [] OTHER ->
                IF HasCharOf(text, FrenchChars) THEN "fr"
                ELSE IF HasCharOf(text, GermanChars) THEN "de"
                ELSE IF HasCharOf(text, SpanishChars) THEN "es"
                ELSE "en"

\* C11: detect_language returns "zh" for the empty text; else "zh" if there
\* are strictly more CJK ideographs (U+4E00..U+9FFF) than ASCII letters; else
\* "en" if there is an ASCII letter; else "fr", "de" or "es" by the first of
\* the French, German and Spanish sets with a character in the text; else "en".
C11_AnalysisDetect ==
    fn = "detect_language" => fResult = AnalysisLanguageAsSpecified(fArgs.text)

\* a tie of one ideograph and one letter was detected as English
C11_Witness ==
    /\ fn = "detect_language"
    /\ fArgs.text = <<"u4e2d", "a">>
    /\ fResult = "en"

\* the language the translation path is to detect: the share of CJK
\* ideographs among the characters that are no whitespace (space, newline,
\* tab, carriage return)
TransLanguageAsSpecified(text) ==
    LET cjk == InRange(text, 19968, 40959)
        nonWs == Cardinality({i \in 1..Len(text) : text[i] \notin {" ", "\n", "\t", "\r"}})
    IN  IF text = <<>> \/ nonWs = 0 THEN "unknown"
        ELSE IF 10 * cjk > 3 * nonWs THEN "zh"
        ELSE IF InRange(text, 65, 90) + InRange(text, 97, 122) > 0 THEN "en"
        ELSE "unknown"

\* C12: _detect_language returns "unknown" for a text that is empty or all
\* whitespace; else "zh" if CJK ideographs are strictly more than 0.3 of the
\* non-whitespace characters, tabs and carriage returns being whitespace like
\* spaces and newlines; else "en" if there is an ASCII letter; else "unknown".
C12_TranslationDetect ==
    fn = "_detect_language" => fResult = TransLanguageAsSpecified(fArgs.text)

\* the lower-cased text contains one of the markers
HasMarker(text, markers) ==
    \E k \in 1..Len(markers) : Contains(Lower(text), markers[k])

\* the number of the markers the lower-cased text contains
MarkersIn(text, markers) ==
    Cardinality({k \in 1..Len(markers) : Contains(Lower(text), markers[k])})

\* C13: is_forwarded_email is true exactly when the lower-cased subject
\* contains a subject indicator, or the lower-cased content contains at least
\* two of from:, sent:, to:, subject:, or the lower-cased content contains a
\* banner indicator; it is false for an empty subject and content, and for a
\* content with a single header token and no other indicator.
C13_IsForwarded ==
    fn = "is_forwarded_email" =>
        /\ fResult = TRUE <=>
              \/ HasMarker(fArgs.subject, forwarded_indicators)
              \/ MarkersIn(fArgs.content, header_indicators) >= 2
              \/ HasMarker(fArgs.content, banner_indicators)
        /\ (fArgs.subject = <<>> /\ fArgs.content = <<>>) => fResult = FALSE
        /\ (/\ MarkersIn(fArgs.content, header_indicators) = 1
            /\ ~HasMarker(fArgs.content, banner_indicators)
            /\ ~HasMarker(fArgs.subject, forwarded_indicators)) => fResult = FALSE

\* a content with the single header token from: under a plain subject was
\* found not to be forwarded
C13_Witness ==
    /\ fn = "is_forwarded_email"
    /\ fArgs.subject = <<"h", "e", "l", "l", "o">>
    /\ fArgs.content = <<"F", "r", "o", "m", ":", " ", "a", "\n">>
    /\ fResult = FALSE

\* the instruction extract is to return for a forwarded email
InstructionAsSpecified(content) ==
    LET ls == Lines(content)
        seps == {i \in 1..Len(ls) : HasMarker(ls[i], forwarded_separators)}
        before == IF seps = {} THEN ls ELSE SubSeq(ls, 1, Min(seps) - 1)
        trimmed == [i \in 1..Len(before) |-> Strip(before[i])]
        joined == JoinLines(SelectSeq(trimmed, LAMBDA l : l # <<>>))
    IN  IF Len(joined) < 3 THEN <<>> ELSE joined

\* C14: extract_user_instruction returns "" when is_forwarded is false; when
\* it is true it returns the trimmed non-empty lines before the first line
\* that contains a separator marker (all of them if there is none), joined
\* by newlines, and "" if that is shorter than 3 characters.  So a non-empty
\* result has at least 3 characters and no line with a separator marker.
C14_ExtractInstruction ==
    fn = "extract_user_instruction" =>
        /\ ~fArgs.is_forwarded => fResult = <<>>
        /\ fArgs.is_forwarded => fResult = InstructionAsSpecified(fArgs.content)
        /\ fResult # <<>> =>
              /\ Len(fResult) >= 3
              /\ \A i \in 1..Len(Lines(fResult)) :
                    ~HasMarker(Lines(fResult)[i], forwarded_separators)

\* the padded line of the user was extracted, trimmed, from above a banner
C14_Witness ==
    /\ fn = "extract_user_instruction"
    /\ fArgs.is_forwarded
    /\ \E rest \in FwdContents :
          /\ rest # <<>>
          /\ fArgs.content = <<" ", "P", "l", "e", "a", "s", "e", " ", "d", "o", " ", "\n">> \o rest
          /\ is_separator(SplitNl(rest)[1])
    /\ fResult = <<"P", "l", "e", "a", "s", "e", " ", "d", "o">>

---------------------------------------------------------------------------
(* Claims about the reply composer, checked under SpecFunctions *)

EnglishTemplates == {"EN_INFO_REGARDING", "EN_AUTO_REGARDING"}
AutoTemplates == {"EN_AUTO_REGARDING", "ZH_AUTO_REGARDING"}
InfoTemplates == {"EN_INFO_REGARDING", "ZH_INFO_REGARDING"}

HasToken(text, S) == \E i \in 1..Len(text) : text[i] \in S

\* the text is not blank
NonBlank(text) == \E i \in 1..Len(text) : text[i] \notin {" ", "\n", "\t", "\r"}

\* the reply language of the policy
ReplyLanguageAsSpecified ==
    IF fArgs.is_forwarded
    THEN (IF "detected_language" \in fArgs.analysis.keys
          THEN fArgs.analysis.detected_language ELSE "zh")
    ELSE "zh"

\* C15: generate_reply replies in analysis.detected_language when the email
\* is forwarded and in "zh" when it is not: for every email that is not
\* forwarded, in every branch, the quote header is the Chinese one and no
\* English template is used, whatever the detected language.
C15_ReplyLanguagePolicy ==
    fn = "generate_reply" =>
        /\ NonBlank(fArgs.original_content) =>
              /\ Contains(fResult.body, QuoteHeaderEn) <=> ReplyLanguageAsSpecified = "en"
              /\ Contains(fResult.body, QuoteHeaderZh) <=> ReplyLanguageAsSpecified # "en"
        /\ HasToken(fResult.body, EnglishTemplates) =>
              (fArgs.is_forwarded /\ ReplyLanguageAsSpecified = "en")
        /\ (HasToken(fResult.body, AutoTemplates \cup InfoTemplates)
                /\ fArgs.is_forwarded /\ ReplyLanguageAsSpecified = "en")
              => HasToken(fResult.body, EnglishTemplates)
        /\ ~fArgs.is_forwarded =>
              /\ ~Contains(fResult.body, QuoteHeaderEn)
              /\ ~Contains(fResult.subject, InfoSuffixEn)

\* an email in English that was not forwarded got the Chinese auto-reply
\* and the Chinese quote header
C15_Witness ==
    /\ fn = "generate_reply"
    /\ ~fArgs.is_forwarded
    /\ fArgs.analysis.detected_language = "en"
    /\ fArgs.original_content = <<"a">>
    /\ fResult.body[1] = "ZH_AUTO_REGARDING"
    /\ Contains(fResult.body, QuoteHeaderZh)

\* the lines quoted from an original: HTML tags removed, every line
\* trimmed, blank lines before the first and after the last line with text
\* dropped, and of a run of blank lines only the first kept
CleanedLinesAsSpecified(content) ==
    LET raw == Lines(strip_tags(content))
        ls == [i \in 1..Len(raw) |-> Strip(raw[i])]
        full == {i \in 1..Len(ls) : ls[i] # <<>>}
        kept == {i \in 1..Len(ls) :
                    /\ Min(full) <= i /\ i <= Max(full)
                    /\ (ls[i] # <<>> \/ ls[i - 1] # <<>>)}
        order == SelectSeq([i \in 1..Len(ls) |-> i], LAMBDA i : i \in kept)
    IN  IF full = {} THEN <<>> ELSE [k \in 1..Len(order) |-> ls[order[k]]]

\* what is appended to a reply in the language for a non-blank original
QuoteAsSpecified(content, language) ==
    LET ls == Lines(JoinLines(CleanedLinesAsSpecified(content)))
    IN  (IF language = "en" THEN QuoteHeaderEn ELSE QuoteHeaderZh)
            \o JoinLines([i \in 1..Len(ls) |-> <<">", " ">> \o ls[i]])

\* the branch for the AI's draft is to be taken
DraftBranch ==
    /\ "reply_content" \in fArgs.analysis.keys
    /\ fArgs.analysis.reply_content # <<>>
    /\ "need_reply" \in fArgs.analysis.keys
    /\ Truthy(fArgs.analysis.need_reply)

CanAutoReply ==
    "can_auto_reply" \in fArgs.analysis.keys /\ Truthy(fArgs.analysis.can_auto_reply)

\* C16: if reply_content is non-empty and need_reply is true the subject is
\* "Re: " + original_subject and the body is reply_content followed by the
\* quoted original, whatever can_auto_reply is; otherwise the auto-reply
\* template is produced exactly when can_auto_reply is true and the
\* info-request template exactly when it is false.  A non-empty
\* reply_content with need_reply false is not the body.
C16_BranchSelection ==
    fn = "generate_reply" =>
        /\ DraftBranch =>
              /\ fResult.subject = <<"R", "e", ":", " ">> \o fArgs.original_subject
              /\ fResult.body =
                    fArgs.analysis.reply_content
                        \o (IF NonBlank(fArgs.original_content)
                            THEN QuoteAsSpecified(fArgs.original_content,
                                                  ReplyLanguageAsSpecified)
                            ELSE <<>>)
              /\ ~HasToken(fResult.body, AutoTemplates \cup InfoTemplates)
        /\ ~DraftBranch =>
              /\ HasToken(fResult.body, AutoTemplates) <=> CanAutoReply
              /\ HasToken(fResult.body, InfoTemplates) <=> ~CanAutoReply
        /\ (fArgs.analysis.reply_content # <<>> /\ fArgs.analysis.need_reply = "False") =>
              fResult.body[1] \in AutoTemplates \cup InfoTemplates

\* a draft of the AI that came with need_reply false was left out and the
\* auto-reply template sent
C16_Witness ==
    /\ fn = "generate_reply"
    /\ fArgs.analysis.reply_content = <<"H", "i">>
    /\ fArgs.analysis.need_reply = "False"
    /\ fArgs.analysis.can_auto_reply = "True"
    /\ fResult.body[1] \in AutoTemplates
    /\ fResult.subject = <<"R", "e", ":", " ">> \o fArgs.original_subject

\* the text begins with the prefix
StartsWith(text, prefix) ==
    Len(text) >= Len(prefix) /\ SubSeq(text, 1, Len(prefix)) = prefix

\* the text ends with the suffix
EndsWith(text, suffix) ==
    Len(text) >= Len(suffix)
        /\ SubSeq(text, Len(text) - Len(suffix) + 1, Len(text)) = suffix

\* the original content as it stands, every line behind "> "
QuotedVerbatim(content) ==
    LET ls == Lines(content)
    IN  JoinLines([i \in 1..Len(ls) |-> <<">", " ">> \o ls[i]])

---------------------------------------------------------------------------
(* Claims about the translation service, checked under SpecServices *)

\* C19: translate_email with the detected source language equal to the
\* target language returns success true with the original subject and the
\* original content as translated_subject and translated_content, and issues
\* no AI call.
C19_SameLanguageUntranslated ==
    (tPc # "idle" /\ tLang = tTarget) =>
        /\ tPc = "returned"
        /\ tResult.success = "True"
        /\ tResult.translated_subject = tEmail.subject
        /\ tResult.translated_content = tEmail.text_content
        /\ \A f \in Fields : tRequests[f] = 0 /\ tOutcome[f].kind = "none"

\* an email in Chinese with an English subject was asked to be translated
\* into Chinese and came back as it was
C19_Witness ==
    /\ tPc = "returned"
    /\ tTarget = "zh"
    /\ tLang = "zh"
    /\ tEmail.subject = <<"a">>
    /\ tEmail.text_content = <<"u4e2d">>
    /\ tResult.translated_content = <<"u4e2d">>
    /\ tResult.translated_subject = <<"a">>

\* the other of the two fields
OtherField(f) == IF f = "subject" THEN "body" ELSE "subject"

\* the translated value of a field in the result
TranslatedField(f) ==
    IF f = "subject" THEN tResult.translated_subject ELSE tResult.translated_content

\* C20: when the AI call for one field times out, fails, answers non-200 or
\* answers a malformed response, translate_email returns success true, that
\* field's translated value is the original text, and the other field has
\* the value of its own call.
C20_SoftFailPerField ==
    \A f \in Fields :
        (tPc \in {"returned", "raised"} /\ tOutcome[f].kind \in TransFailureKinds) =>
            /\ tPc = "returned"
            /\ tResult.success = "True"
            /\ TranslatedField(f) = field_text(f, tEmail)
            /\ tOutcome[OtherField(f)].kind = "ok" =>
                  TranslatedField(OtherField(f)) = Strip(tOutcome[OtherField(f)].text)

\* C21: translate_email returns a result for every processed email and
\* every supported target language, with the text part present or absent: it
\* never raises, and a result with success false carries an error string.
C21_TranslateAlwaysReturns ==
    /\ tPc # "raised"
    /\ (tPc = "returned" /\ tResult.success = "False") => tResult.has_error

---------------------------------------------------------------------------
(* Claims about the translation endpoint, checked under Spec *)

\* C22: on a translation request whose target code is not one of zh, en, ja,
\* ko, fr, de, es, ru, translate_email is never called, no AI request is
\* made and no translation email is sent.
C22_UnsupportedTargetRejected ==
    (endpoint = "trans"
        /\ reqTarget \notin {"zh", "en", "ja", "ko", "fr", "de", "es", "ru"}) =>
        /\ tPc = "idle"
        /\ \A f \in Fields : tRequests[f] = 0
        /\ sent = <<>>
        /\ pc = "done" => status = 400

\* a signed, well-formed email asked to be translated into "xx" was answered
\* with 400 after the check of the target language
C22_Witness ==
    /\ endpoint = "trans"
    /\ reqTarget = "xx"
    /\ verified = "True"
    /\ processed # NoEmail
    /\ pc = "done"
    /\ status = 400
    /\ Len(logs) = 2
    /\ logs[2] = "unsupported_language"
    /\ tPc = "idle"

---------------------------------------------------------------------------
(* Claims about the quoting of the original, checked under SpecFunctions *)

\* the text holds something the tag pattern matches: a "<", at least one
\* character other than ">", and a ">"
HasTag(text) ==
    \E i \in 1..Len(text), j \in 1..Len(text) :
        /\ i + 2 <= j
        /\ text[i] = "<"
        /\ text[j] = ">"
        /\ \A k \in (i + 1)..(j - 1) : text[k] # ">"

\* the header that opens the quote in a language
QuoteHeaderOf(language) == IF language = "en" THEN QuoteHeaderEn ELSE QuoteHeaderZh

\* the lines that follow the reply text and the header in a quoted body
QuotedLinesOf(body, reply_body, language) ==
    Lines(SubSeq(body, Len(reply_body) + Len(QuoteHeaderOf(language)) + 1, Len(body)))

\* a quoted line without its "> "
Unquoted(line) == SubSeq(line, 3, Len(line))

\* C24: for an empty or blank original the reply body is returned unchanged;
\* otherwise the body is the reply text, the header of the language and the
\* cleaned original, in which no HTML tag is left, every line starts with
\* "> ", no two consecutive quoted lines are blank and the first and the last
\* quoted line are not blank, also for an original made of HTML tags only.
C24_QuoteIsClean ==
    fn = "_add_original_quote" =>
        IF ~NonBlank(fArgs.original_content)
        THEN fResult = fArgs.reply_body
        ELSE LET qs == QuotedLinesOf(fResult, fArgs.reply_body, fArgs.language)
                 blank(i) == ~NonBlank(Unquoted(qs[i]))
             IN  /\ StartsWith(fResult, fArgs.reply_body \o QuoteHeaderOf(fArgs.language))
                 /\ \A i \in 1..Len(qs) : StartsWith(qs[i], <<">", " ">>)
                 /\ ~HasTag(JoinLines([i \in 1..Len(qs) |-> Unquoted(qs[i])]))
                 /\ \A i \in 1..(Len(qs) - 1) : ~(blank(i) /\ blank(i + 1))
                 /\ ~blank(1)
                 /\ ~blank(Len(qs))

---------------------------------------------------------------------------
(* Claims about the parser, checked under Spec *)

\* the text and HTML contents of the request's message before the limit
ExtractedOfRequest == extract_text_parts(decode_and_parse(reqRaw).msg)

\* a stored content is the extracted one, cut to the maximum with the marker
\* behind it if it was longer
TruncatedAsSpecified(stored, extracted) ==
    IF extracted = None THEN stored = None
    ELSE /\ stored # None
         /\ Len(stored) <= MaxEmailContentLength + Len(TruncationMarker)
         /\ IF Len(extracted) <= MaxEmailContentLength
            THEN stored = extracted
            ELSE /\ Len(stored) = MaxEmailContentLength + Len(TruncationMarker)
                 /\ \A i \in 1..MaxEmailContentLength : stored[i] = extracted[i]
                 /\ \A i \in 1..Len(TruncationMarker) :
                       stored[MaxEmailContentLength + i] = TruncationMarker[i]

\* C25: text_content and html_content are truncated independently: a value
\* of at most the maximum length is left as it is, a longer one becomes its
\* first maximum-length characters and the marker; so a stored content is
\* never longer than the maximum plus the marker, the marker is only
\* appended when characters were cut, and the truncation of one field does
\* not change the other.
C25_TruncationPerField ==
    processed # NoEmail =>
        /\ TruncatedAsSpecified(processed.text_content, ExtractedOfRequest[1])
        /\ TruncatedAsSpecified(processed.html_content, ExtractedOfRequest[2])

\* a message whose text part was one character too long and whose HTML part
\* had exactly the maximum length: the text was cut, the HTML kept
C25_Witness ==
    /\ reqRaw = "b64:multipart_long"
    /\ processed # NoEmail
    /\ Len(ExtractedOfRequest[1]) = MaxEmailContentLength + 1
    /\ processed.text_content = ExactBody \o TruncationMarker
    /\ processed.html_content = ExactBody

\* a content of an email is absent or holds a character that is not blank
AbsentOrNonBlank(content) == content = None \/ NonBlank(content)

\* C26: in every email the parser produces, from a multipart or a
\* single-part message, text_content and html_content are each absent or a
\* non-empty string; an empty or whitespace-only body is reported as absent.
C26_AbsentOrNonEmpty ==
    processed # NoEmail =>
        /\ AbsentOrNonBlank(processed.text_content)
        /\ AbsentOrNonBlank(processed.html_content)

---------------------------------------------------------------------------
(* Claims about the info-request list, checked under SpecFunctions *)

\* the number of lines of the text that start with the bullet
BulletLines(text) ==
    LET ls == Lines(text)
    IN  Cardinality({i \in 1..Len(ls) : StartsWith(ls[i], Bullet)})

\* the number of commas of the text
Commas(text) == Cardinality({i \in 1..Len(text) : text[i] = ","})

\* C27: when requires_info contains commas the formatted list has exactly
\* one bullet per comma-separated item, otherwise exactly one bullet with the
\* whole string; for every value, the empty one and the ones made of commas
\* and spaces included, the list has at least one bullet line.
C27_BulletPerItem ==
    fn = "_format_required_info" =>
        /\ BulletLines(fResult) >= 1
        /\ Commas(fArgs.requires_info) > 0 =>
              BulletLines(fResult) = Commas(fArgs.requires_info) + 1
        /\ (Commas(fArgs.requires_info) = 0 /\ fArgs.requires_info # <<>>) =>
              fResult = Bullet \o fArgs.requires_info

---------------------------------------------------------------------------
(* Claims about the languages detect_language can return *)

\* the text has the character
HasChar(text, c) == \E i \in 1..Len(text) : text[i] = c

\* the text has neither a CJK ideograph nor an ASCII letter
NoCjkNoLetter(text) ==
    InRange(text, 19968, 40959) + InRange(text, 65, 90) + InRange(text, 97, 122) = 0

\* C28, as stated: detect_language never returns "es" and returns "de" only
\* for a text that contains the sharp s; for every text with no CJK
\* ideograph and no ASCII letter the result is "fr", "de" or "en".
C28_NeverSpanish ==
    fn = "detect_language" =>
        /\ fResult # "es"
        /\ fResult = "de" => HasChar(fArgs.text, "u00df")
        /\ NoCjkNoLetter(fArgs.text) => fResult \in {"fr", "de", "en"}

\* C28, amended: detect_language never returns "es" and returns "de" only
\* for a text that contains the sharp s, small or capital; the empty text
\* gives "zh", and every other text with no CJK ideograph and no ASCII
\* letter gives "fr", "de" or "en".
C28_NeverSpanishNonEmpty ==
    fn = "detect_language" =>
        /\ fResult # "es"
        /\ fResult = "de" => HasChar(fArgs.text, "u00df") \/ HasChar(fArgs.text, "u1e9e")
        /\ fArgs.text = <<>> => fResult = "zh"
        /\ (fArgs.text # <<>> /\ NoCjkNoLetter(fArgs.text)) =>
              fResult \in {"fr", "de", "en"}

\* a text of one e with an acute accent, a character of the Spanish set,
\* was detected as French
C28_Witness ==
    /\ fn = "detect_language"
    /\ fArgs.text = <<"u00e9">>
    /\ fResult = "fr"

---------------------------------------------------------------------------
(* Claims about the mail transport, checked under SpecFunctions *)

\* SES was called and sent the message
SesSucceeded == fResult.ses_called /\ fArgs.ses_message_id # "None"

\* SMTP was called and sent the message
SmtpSucceeded == fResult.smtp_called /\ fArgs.smtp_success

\* C29: SMTP is attempted only when SES is not preferred, is unavailable or
\* has failed; success is true exactly when one of the transports succeeded;
\* method names the transport that succeeded and is null on failure; error
\* is null whenever success is true and non-null whenever success is false.
C29_SendResultConsistent ==
    fn = "send_email" =>
        /\ fResult.smtp_called =>
              \/ ~fArgs.prefer_ses
              \/ ~fArgs.ses_client
              \/ (fResult.ses_called /\ fArgs.ses_message_id = "None")
        /\ fResult.result.success = "True" <=> (SesSucceeded \/ SmtpSucceeded)
        /\ SesSucceeded => fResult.result.method = "SES"
        /\ (~SesSucceeded /\ SmtpSucceeded) => fResult.result.method = "SMTP"
        /\ fResult.result.success = "False" => fResult.result.method = "None"
        /\ fResult.result.success = "True" => fResult.result.error = "None"
        /\ fResult.result.success = "False" => fResult.result.error # "None"

---------------------------------------------------------------------------
(* Claims about the storage, checked under SpecStorage *)

\* every worker has made all calls of its request
AllRequestsDone == \A w \in Workers : CallOf(w) = "none"

\* C23: two inbound requests processed by separate workers need no locking:
\* whatever the interleaving, after both have finished the stored state
\* holds the email record and the activity-log entry of each request whose
\* save succeeded; no update is lost.
C23_NoLostUpdate ==
    AllRequestsDone =>
        \A w \in Workers :
            /\ <<"emails", w>> \in acked =>
                  \E i \in 1..Len(emails) : emails[i].email_data = WorkerEmail(w)
            /\ <<"logs", w>> \in acked =>
                  \E i \in 1..Len(logs) : logs[i] = LogEntry(w)

\* the last n entries of a sequence, all of them if it has fewer
LastEntries(s, n) == SubSeq(s, IF Len(s) > n THEN Len(s) - n + 1 ELSE 1, Len(s))

\* C30: after any sequence of log_activity calls that saved successfully,
\* the stored log holds at most 1000 entries, and they are the most recently
\* appended entries in the order they were appended.
C30_LogKeepsNewest ==
    /\ Len(logs) <= 1000
    /\ ~overlapped => logs = LastEntries(appended, 1000)

\* two calls, one after the other, on a log of 1000 entries: the two oldest
\* entries were dropped and the two new ones are the last
C30_Witness ==
    /\ ~overlapped
    /\ AllRequestsDone
    /\ Len(appended) = 1002
    /\ Len(logs) = 1000
    /\ logs[1] = 3
    /\ {logs[999], logs[1000]} = {LogEntry(1), LogEntry(2)}
    /\ logs[1000] = appended[1002]

=============================================================================
